---- MODULE Spec2Model ----
(***************************************************************************)
(* Butterfly pricing and strategy ranking of nifty-pulse                   *)
(* (src/src/lib/butterflyCalculations.ts), as a state machine: the state   *)
(* is the snapshot handed to the calculation module (chainArg,             *)
(* spotArg)   together with the last call made on it and what it returned. *)
(*                                                                         *)
(* Numbers.  Prices, strikes and the spot price are integers.  A JavaScript*)
(* value of a quote field is an integer, undefined or null; the two        *)
(* nullish values are the reserved integers below, which no price, strike  *)
(* or spot of the model takes.  A quotient (valuePercent, premium) is the  *)
(* exact rational [num, den]; den = 0 stands for NaN, whose comparisons    *)
(* are all false.  IEEE rounding of the quotient is not modelled.          *)
(*                                                                         *)
(* The fetching side has three more machines, each with its own            *)
(* specification: the hook useOptionChain (HookSpec), the axios server     *)
(* (ServerSpec) and the Puppeteer server (BrowserSpec).  A machine that a  *)
(* specification does not run keeps its "off" value.                       *)
(***************************************************************************)
EXTENDS Integers, Sequences, FiniteSets

VARIABLES
  chainArg,        \* the rawOptionData argument of the calls: [kind, rows]
  spotArg,         \* the spotPrice argument: an integer or undefined
  call,            \* the last call made: its function and arguments
  retRate,         \* what calculateButterflyRate returned
  retNumber,       \* what calculateValuePercent returned
  retLabel,        \* what a classification rule returned
  retChain,        \* what calculateButterflyChain returned
  retStrategies,   \* what findBestStrategies / findBestTrades returned
  retRecords,      \* what transformOptionDataForButterfly returned
  retTable,        \* the butterflyData of MultiButterflyChainTable
  hook,            \* the state of useOptionChain and its requests in flight
  server,          \* the axios server: its module variables and a call's position
  browser          \* the Puppeteer server: its module variables and its callers

\* the state of the calculation module
calcVars == <<chainArg, spotArg, call, retRate, retNumber, retLabel,
              retChain, retStrategies, retRecords, retTable>>

\* the state of the collaborators that fetch the chain
fetchVars == <<hook, server, browser>>

vars == <<chainArg, spotArg, call, retRate, retNumber, retLabel,
          retChain, retStrategies, retRecords, retTable, hook, server, browser>>

undefined == -9999
null == -9998

IsNullish(v) == v = undefined \/ v = null

\* a ?? b
Coalesce(a, b) == IF IsNullish(a) THEN b ELSE a

\* !v for a numeric, undefined or null v
Falsy(v) == IsNullish(v) \/ v = 0

Abs(x) == IF x < 0 THEN -x ELSE x

--------------------------------------------------------------------------
(* Rationals: [num, den], den > 0; den = 0 is NaN.                         *)

Rat(n, d) == [num |-> n, den |-> d]
RatOfInt(n) == Rat(n, 1)
NaN == Rat(0, 0)
RatIsNaN(q) == q.den = 0
RatLess(a, b) == a.den > 0 /\ b.den > 0 /\ a.num * b.den < b.num * a.den
RatEq(a, b) == a.den > 0 /\ b.den > 0 /\ a.num * b.den = b.num * a.den
RatLeq(a, b) == RatLess(a, b) \/ RatEq(a, b)
RatLeqInt(q, k) == RatLeq(q, RatOfInt(k))
RatGtInt(q, k) == RatLess(RatOfInt(k), q)
RatFalsy(q) == q.den = 0 \/ q.num = 0

--------------------------------------------------------------------------
(* Records of a chain.  One shape serves raw contract rows and normalized  *)
(* strike records alike; a key the object does not carry reads undefined.  *)
(* The nested CE / PE objects are flattened: CE_askprice is CE?.askprice.  *)

NoSymbol == <<>>

EmptyRow ==
  [strike_price |-> undefined, option_type |-> "", symbol |-> NoSymbol,
   ltp |-> undefined, open_interest |-> undefined, oi |-> undefined,
   bid_price |-> undefined, bid |-> undefined,
   ask_price |-> undefined, ask |-> undefined,
   call_ltp |-> undefined, call_oi |-> undefined,
   call_bid |-> undefined, call_ask |-> undefined,
   put_ltp |-> undefined, put_oi |-> undefined,
   put_bid |-> undefined, put_ask |-> undefined,
   CE_bidprice |-> undefined, CE_askprice |-> undefined, CE_ltp |-> undefined,
   PE_bidprice |-> undefined, PE_askprice |-> undefined, PE_ltp |-> undefined]

\* symbol.includes(sub), both sequences of characters
Includes(symbol, sub) ==
  \E i \in 1..(Len(symbol) - Len(sub) + 1) :
    \A j \in 1..Len(sub) : symbol[i + j - 1] = sub[j]

CEsub == <<"C", "E">>

--------------------------------------------------------------------------
(* Sequence helpers (Array.prototype.filter / sort / slice).               *)

\* the elements Keep holds of, in their order
FilterSeq(s, Keep(_)) ==
  LET F[lo \in 1..(Len(s) + 1), hi \in 0..Len(s)] ==
        IF lo > hi THEN <<>>
        ELSE IF lo = hi THEN (IF Keep(s[lo]) THEN <<s[lo]>> ELSE <<>>)
        ELSE F[lo, (lo + hi) \div 2] \o F[((lo + hi) \div 2) + 1, hi]
  IN  F[1, Len(s)]

\* two sorted sequences merged, the elements of a before the elements of b
\* they tie with; Before(x, y) is cmp(x, y) < 0
MergeSorted(a, b, Before(_, _)) ==
  LET M[al \in 1..(Len(a) + 1), ah \in 0..Len(a),
        bl \in 1..(Len(b) + 1), bh \in 0..Len(b)] ==
        IF bl > bh THEN SubSeq(a, al, ah)
        ELSE IF al > ah THEN SubSeq(b, bl, bh)
        ELSE LET mid == (bl + bh) \div 2
                 \* the elements of a[al..ah] that b[mid] does not precede
                 pa == Cardinality({i \in al..ah : ~Before(b[mid], a[i])})
             IN  M[al, al + pa - 1, bl, mid - 1] \o <<b[mid]>>
                   \o M[al + pa, ah, mid + 1, bh]
  IN  M[1, Len(a), 1, Len(b)]

\* Array.prototype.sort with a consistent comparator: stable
SortSeq(s, Before(_, _)) ==
  LET S[lo \in 1..(Len(s) + 1), hi \in 0..Len(s)] ==
        IF lo > hi THEN <<>>
        ELSE IF lo = hi THEN <<s[lo]>>
        ELSE MergeSorted(S[lo, (lo + hi) \div 2], S[((lo + hi) \div 2) + 1, hi], Before)
  IN  S[1, Len(s)]

Slice(s, k) == SubSeq(s, 1, IF Len(s) < k THEN Len(s) ELSE k)

--------------------------------------------------------------------------
(* transformOptionDataForButterfly (lines 18-59).  The argument is         *)
(* [kind, rows]: kind is "array", "undefined" or "null".                   *)

SENTINEL == -1

ArrayOf(rows) == [kind |-> "array", rows |-> rows]
NotAnArray(k) == [kind |-> k, rows |-> <<>>]

\* line 22: some row already carries call_ltp or put_ltp
alreadyTransformed(rows) ==
  \E i \in 1..Len(rows) :
    rows[i].call_ltp # undefined \/ rows[i].put_ltp # undefined

\* line 41
isCall(item) == item.option_type = "CE" \/ Includes(item.symbol, CEsub)

\* lines 43-55 without the fallback to the value the entry holds
mergeItem_Overwrite(entry, item) ==
  LET b == Coalesce(item.bid_price, item.bid)
      a == Coalesce(item.ask_price, item.ask)
      l == item.ltp
      o == Coalesce(item.open_interest, item.oi)
  IN  IF isCall(item)
      THEN [entry EXCEPT !.call_ltp = l, !.call_oi = o, !.call_bid = b, !.call_ask = a,
                         !.CE_bidprice = b, !.CE_askprice = a, !.CE_ltp = l]
      ELSE [entry EXCEPT !.put_ltp = l, !.put_oi = o, !.put_bid = b, !.put_ask = a,
                         !.PE_bidprice = b, !.PE_askprice = a, !.PE_ltp = l]

\* lines 43-55: one raw row merged into the entry of its strike
mergeItem(entry, item) ==
  LET b(old) == Coalesce(Coalesce(item.bid_price, item.bid), old)
      a(old) == Coalesce(Coalesce(item.ask_price, item.ask), old)
      l(old) == Coalesce(item.ltp, old)
      o(old) == Coalesce(Coalesce(item.open_interest, item.oi), old)
  IN  IF isCall(item)
      THEN [entry EXCEPT !.call_ltp = l(entry.call_ltp),
                         !.call_oi = o(entry.call_oi),
                         !.call_bid = b(entry.call_bid),
                         !.call_ask = a(entry.call_ask),
                         !.CE_bidprice = b(entry.CE_bidprice),
                         !.CE_askprice = a(entry.CE_askprice),
                         !.CE_ltp = l(entry.CE_ltp)]
      ELSE [entry EXCEPT !.put_ltp = l(entry.put_ltp),
                         !.put_oi = o(entry.put_oi),
                         !.put_bid = b(entry.put_bid),
                         !.put_ask = a(entry.put_ask),
                         !.PE_bidprice = b(entry.PE_bidprice),
                         !.PE_askprice = a(entry.PE_askprice),
                         !.PE_ltp = l(entry.PE_ltp)]

\* lines 30-56: the strikeMap, as the sequence of its entries in insertion order
strikeMap(optionsOnly) ==
  LET M[i \in 0..Len(optionsOnly)] ==
        IF i = 0 THEN <<>>
        ELSE LET item == optionsOnly[i]
                 strike == item.strike_price
                 m == M[i - 1]
             IN  IF IsNullish(strike) THEN m                     \* line 34
                 ELSE IF \E k \in 1..Len(m) : m[k].strike_price = strike
                      THEN LET k == CHOOSE k \in 1..Len(m) : m[k].strike_price = strike
                           IN  [m EXCEPT ![k] = mergeItem(m[k], item)]
                      ELSE Append(m, mergeItem([EmptyRow EXCEPT !.strike_price = strike], item))
  IN  M[Len(optionsOnly)]

transformOptionDataForButterfly(rawData) ==
  IF rawData.kind # "array" THEN <<>>                              \* line 19
  ELSE IF alreadyTransformed(rawData.rows)                         \* lines 22-24
       THEN FilterSeq(rawData.rows, LAMBDA d : d.strike_price # SENTINEL)
       ELSE SortSeq(strikeMap(FilterSeq(rawData.rows,
                                        LAMBDA d : d.strike_price # SENTINEL)),
                    LAMBDA x, y : x.strike_price < y.strike_price)

--------------------------------------------------------------------------
(* calculateButterflyRate (lines 83-139).                                  *)

\* optionData.find(o => o.strike_price === strike), as an index; 0 when undefined
findOption(optionData, strike) ==
  IF \E i \in 1..Len(optionData) : optionData[i].strike_price = strike
  THEN CHOOSE i \in 1..Len(optionData) :
         /\ optionData[i].strike_price = strike
         /\ \A k \in 1..(i - 1) : optionData[k].strike_price # strike
  ELSE 0

\* Number(null) is 0: the null check left out
toNumberOrNull_NoNullCheck(v) == IF v = undefined THEN null ELSE IF v = null THEN 0 ELSE v

\* lines 96-100; every non-nullish value of the model is a finite number
toNumberOrNull(v) == IF v = null \/ v = undefined THEN null ELSE v

\* lines 103-118
extract(option, opType) ==
  IF opType = "CALL"
  THEN [bid |-> toNumberOrNull(Coalesce(Coalesce(option.call_bid, option.CE_bidprice), option.call_bid)),
        ask |-> toNumberOrNull(Coalesce(Coalesce(option.call_ask, option.CE_askprice), option.call_ask)),
        ltp |-> toNumberOrNull(Coalesce(option.call_ltp, option.CE_ltp))]
  ELSE [bid |-> toNumberOrNull(Coalesce(Coalesce(option.put_bid, option.PE_bidprice), option.put_bid)),
        ask |-> toNumberOrNull(Coalesce(Coalesce(option.put_ask, option.PE_askprice), option.put_ask)),
        ltp |-> toNumberOrNull(Coalesce(option.put_ltp, option.PE_ltp))]

\* q.ask || q.ltp: a quote of 0 replaced by the last traded price
boughtLegPrice_Or(q) == IF Falsy(q.ask) THEN q.ltp ELSE q.ask

\* lines 127, 129: a bought leg
boughtLegPrice(q) == Coalesce(q.ask, q.ltp)

\* line 128: the sold leg
soldLegPrice(q) == Coalesce(q.bid, q.ltp)

\* the middle leg counted once
butterflyRate_OneMiddle(lowerAsk, middleBid, upperAsk) == lowerAsk - middleBid + upperAsk

\* line 133
butterflyRate(lowerAsk, middleBid, upperAsk) == lowerAsk - 2 * middleBid + upperAsk

\* line 136
firstLegPremiumOf(type, lowerAsk, upperAsk) == IF type = "CALL" THEN lowerAsk ELSE upperAsk

NullResult == [isNull |-> TRUE, rate |-> 0, firstLegPremium |-> 0]

calculateButterflyRate(lowerStrike, middleStrike, upperStrike, optionData, type) ==
  LET li == findOption(optionData, lowerStrike)
      mi == findOption(optionData, middleStrike)
      ui == findOption(optionData, upperStrike)
  IN  IF li = 0 \/ mi = 0 \/ ui = 0 THEN NullResult                \* line 94
      ELSE LET low == extract(optionData[li], type)
               mid == extract(optionData[mi], type)
               up == extract(optionData[ui], type)
               lowerAsk == boughtLegPrice(low)
               middleBid == soldLegPrice(mid)
               upperAsk == boughtLegPrice(up)
           IN  IF lowerAsk = null \/ middleBid = null \/ upperAsk = null
               THEN NullResult                                     \* line 131
               ELSE [isNull |-> FALSE,
                     rate |-> butterflyRate(lowerAsk, middleBid, upperAsk),
                     firstLegPremium |-> firstLegPremiumOf(type, lowerAsk, upperAsk)]

\* the guard of line 143 left out: a division by 0
calculateValuePercent_NoGuard(rate, firstLegPremium) ==
  IF firstLegPremium = 0 THEN NaN ELSE Rat(rate * 100, firstLegPremium)

\* lines 142-145
calculateValuePercent(rate, firstLegPremium) ==
  IF firstLegPremium <= 0 THEN RatOfInt(0) ELSE Rat(rate * 100, firstLegPremium)

--------------------------------------------------------------------------
(* Classification rules (lines 148-177).                                   *)

\* lines 148-153 with < for the first <=
getRecommendation_Below(valuePercent) ==
  IF RatLess(valuePercent, RatOfInt(10)) THEN "ENTRY"
  ELSE IF RatLeqInt(valuePercent, 15) THEN "HOLD"
  ELSE IF RatLeqInt(valuePercent, 20) THEN "HOLD"
  ELSE "AVOID"

\* lines 148-153
getRecommendation(valuePercent) ==
  IF RatLeqInt(valuePercent, 10) THEN "ENTRY"
  ELSE IF RatLeqInt(valuePercent, 15) THEN "HOLD"
  ELSE IF RatLeqInt(valuePercent, 20) THEN "HOLD"
  ELSE "AVOID"

\* the rule of line 174 tried before the rule of line 173
getDetailedRecommendation_Reordered(valuePercent, distanceFromATM, gap) ==
  LET isNearATM == distanceFromATM <= 2
      hasGoodGap == gap <= 100
  IN  IF RatGtInt(valuePercent, 25) THEN "EXIT"
      ELSE IF RatGtInt(valuePercent, 20) THEN "VALUE_BREACH"
      ELSE IF RatLeqInt(valuePercent, 10) /\ isNearATM /\ hasGoodGap THEN "ENTRY"
      ELSE IF RatLeqInt(valuePercent, 10) /\ isNearATM THEN "PROFIT_BOOKING"
      ELSE IF RatLeqInt(valuePercent, 15) /\ isNearATM THEN "SCALE"
      ELSE IF RatLeqInt(valuePercent, 15) /\ ~isNearATM THEN "HOLD"
      ELSE IF RatLeqInt(valuePercent, 20) THEN "HOLD"
      ELSE IF RatLeqInt(valuePercent, 20) /\ ~isNearATM /\ ~hasGoodGap THEN "CHAIN_WARNING"
      ELSE "AVOID"

\* lines 156-177
getDetailedRecommendation(valuePercent, distanceFromATM, gap) ==
  LET isNearATM == distanceFromATM <= 2
      hasGoodGap == gap <= 100
  IN  IF RatGtInt(valuePercent, 25) THEN "EXIT"
      ELSE IF RatGtInt(valuePercent, 20) THEN "VALUE_BREACH"
      ELSE IF RatLeqInt(valuePercent, 10) /\ isNearATM /\ hasGoodGap THEN "ENTRY"
      ELSE IF RatLeqInt(valuePercent, 10) /\ isNearATM THEN "PROFIT_BOOKING"
      ELSE IF RatLeqInt(valuePercent, 15) /\ isNearATM THEN "SCALE"
      ELSE IF RatLeqInt(valuePercent, 15) /\ ~isNearATM THEN "HOLD"
      ELSE IF RatLeqInt(valuePercent, 20) /\ ~isNearATM /\ ~hasGoodGap THEN "CHAIN_WARNING"
      ELSE IF RatLeqInt(valuePercent, 20) THEN "HOLD"
      ELSE "AVOID"

\* lines 180-195; "undefined" when no alert applies
getAlertType(valuePercent, distanceFromATM, gap) ==
  LET isNearATM == distanceFromATM <= 2
      hasGoodGap == gap <= 100
  IN  IF RatLeqInt(valuePercent, 10) /\ isNearATM /\ hasGoodGap THEN "good_entry"
      ELSE IF RatGtInt(valuePercent, 20) THEN "value_breach"
      ELSE IF RatLeqInt(valuePercent, 15) /\ isNearATM THEN "profit_booking"
      ELSE IF RatLeqInt(valuePercent, 15) THEN "scaling_opportunity"
      ELSE IF ~isNearATM \/ ~hasGoodGap THEN "chain_warning"
      ELSE "undefined"

--------------------------------------------------------------------------
(* calculateButterflyChain (lines 205-274).                                *)

DefaultGaps == <<50, 100, 150, 200>>

\* lines 216-219, 302-305: the positive strikes, sorted
strikesOf(optionData, descending) ==
  LET pos == FilterSeq(optionData, LAMBDA item : item.strike_price > 0)
      ks == [i \in 1..Len(pos) |-> pos[i].strike_price]
  IN  IF descending THEN SortSeq(ks, LAMBDA x, y : y < x)
      ELSE SortSeq(ks, LAMBDA x, y : x < y)

\* the comparison of line 224 with <= for <
closer_OrEqual(curr, prev, spotPrice) ==
  spotPrice # undefined /\ Abs(curr - spotPrice) <= Abs(prev - spotPrice)

\* Math.abs(curr - spotPrice) < Math.abs(prev - spotPrice); false when the
\* spot price is undefined, the differences being NaN
closer(curr, prev, spotPrice) ==
  spotPrice # undefined /\ Abs(curr - spotPrice) < Abs(prev - spotPrice)

\* lines 223-225, 309-311: strikes.reduce without an initial value
atmStrikeOf(strikes, spotPrice) ==
  LET R[i \in 1..Len(strikes)] ==
        IF i = 1 THEN strikes[1]
        ELSE IF closer(strikes[i], R[i - 1], spotPrice) THEN strikes[i] ELSE R[i - 1]
  IN  R[Len(strikes)]

\* lines 245-255, 317-329
legs(type, strike, gap) ==
  IF type = "CALL"
  THEN [lower |-> strike, middle |-> strike + gap, upper |-> strike + gap * 2]
  ELSE [lower |-> strike - gap * 2, middle |-> strike - gap, upper |-> strike]

\* lines 231-240: (bid + ask) / 2 || ltp || 0
premiumOf(bid, ask, ltp) ==
  IF bid + ask # 0 THEN Rat(bid + ask, 2)
  ELSE IF ~Falsy(ltp) THEN RatOfInt(ltp)
  ELSE RatOfInt(0)

\* lines 257-262 without the test of the rate
gapDataOf_AnyRate(strike, optionData, type, gaps) ==
  LET res(g) == LET t == legs(type, strike, g)
                IN  calculateButterflyRate(t.lower, t.middle, t.upper, optionData, type)
      kept == {i \in 1..Len(gaps) : ~res(gaps[i]).isNull}
  IN  [g \in {gaps[i] : i \in kept} |->
         [rate |-> res(g).rate,
          value |-> calculateValuePercent(res(g).rate, res(g).firstLegPremium)]]

\* lines 242-263: the gaps object of one row, a function on the retained gaps
gapDataOf(strike, optionData, type, gaps) ==
  LET res(g) == LET t == legs(type, strike, g)
                IN  calculateButterflyRate(t.lower, t.middle, t.upper, optionData, type)
      kept == {i \in 1..Len(gaps) : ~res(gaps[i]).isNull /\ res(gaps[i]).rate > 0}
  IN  [g \in {gaps[i] : i \in kept} |->
         [rate |-> res(g).rate,
          value |-> calculateValuePercent(res(g).rate, res(g).firstLegPremium)]]

calculateButterflyChain(rawOptionData, spotPrice, type, gaps) ==
  LET optionData == transformOptionDataForButterfly(rawOptionData)
      strikes == strikesOf(optionData, type # "CALL")
  IN  IF Len(optionData) = 0 THEN <<>>                              \* line 214
      ELSE IF Len(strikes) = 0 THEN <<>>                            \* line 221
      ELSE LET atmStrike == atmStrikeOf(strikes, spotPrice)
               row(strike) ==
                 LET option == optionData[findOption(optionData, strike)]
                     bid == IF type = "CALL" THEN Coalesce(option.call_bid, 0)
                            ELSE Coalesce(option.put_bid, 0)
                     ask == IF type = "CALL" THEN Coalesce(option.call_ask, 0)
                            ELSE Coalesce(option.put_ask, 0)
                     ltp == IF type = "CALL" THEN option.call_ltp ELSE option.put_ltp
                 IN  [strike |-> strike,
                      premium |-> premiumOf(bid, ask, ltp),
                      bid |-> bid,
                      ask |-> ask,
                      isATM |-> strike = atmStrike,
                      gaps |-> gapDataOf(strike, optionData, type, gaps)]
           IN  [i \in 1..Len(strikes) |-> row(strikes[i])]

\* lines 277-285
isATMorOTM(strike, atmStrike, type) ==
  IF type = "CALL" THEN strike >= atmStrike ELSE strike <= atmStrike

--------------------------------------------------------------------------
(* findBestStrategies (lines 288-375) and findBestTrades (lines 378-399).  *)

Types == <<"CALL", "PUT">>

\* the quotient cut off, not rounded
roundDiv50_Floor(d) == d \div 50

\* Math.round(d / 50) for d >= 0
roundDiv50(d) == (2 * d + 50) \div 100

\* the filter left out
skipsInTheMoney_Never(type, t, atmStrike) == FALSE

\* lines 325, 332: the combination is skipped before pricing
skipsInTheMoney(type, t, atmStrike) ==
  IF type = "CALL" THEN t.lower < atmStrike ELSE t.upper > atmStrike

\* line 344: the sanity bounds on the rate
plausible(result) ==
  ~result.isNull /\ result.rate > 0 /\ 2 * result.rate < result.firstLegPremium

\* line 350
withinValue(valuePercent, maxValuePercent) ==
  RatLeqInt(valuePercent, maxValuePercent) /\ RatGtInt(valuePercent, 0)

\* lines 317-365: the body of the loop for one (type, gap, baseStrike); the
\* strategies it pushes
candidate(type, gap, baseStrike, optionData, atmStrike, maxValuePercent) ==
  LET t == legs(type, baseStrike, gap)
      skipped == skipsInTheMoney(type, t, atmStrike)
      hasAllStrikes ==
        /\ \E i \in 1..Len(optionData) : optionData[i].strike_price = t.lower
        /\ \E i \in 1..Len(optionData) : optionData[i].strike_price = t.middle
        /\ \E i \in 1..Len(optionData) : optionData[i].strike_price = t.upper
      result == calculateButterflyRate(t.lower, t.middle, t.upper, optionData, type)
      valuePercent == calculateValuePercent(result.rate, result.firstLegPremium)
      distanceFromATM == Abs(t.lower - atmStrike)
  IN  IF skipped \/ ~hasAllStrikes THEN <<>>
      ELSE IF ~plausible(result) THEN <<>>
      ELSE IF ~withinValue(valuePercent, maxValuePercent) THEN <<>>
      ELSE << [type |-> type,
               strikeCombo |-> <<t.lower, t.middle, t.upper>>,
               strikes |-> <<t.lower, t.middle, t.upper>>,
               gap |-> gap,
               firstLegPremium |-> result.firstLegPremium,
               butterflyRate |-> result.rate,
               valuePercent |-> valuePercent,
               distanceFromATM |-> roundDiv50(distanceFromATM),
               recommendation |-> getRecommendation(valuePercent),
               isNearATM |-> distanceFromATM <= 100,
               hasGoodGap |-> gap <= 100] >>

\* the tie-break left out
strategyBefore_ValueOnly(a, b) == RatLess(a.valuePercent, b.valuePercent)

\* lines 371-374: the comparator is negative
strategyBefore(a, b) ==
  IF ~RatEq(a.valuePercent, b.valuePercent)
  THEN RatLess(a.valuePercent, b.valuePercent)
  ELSE a.distanceFromATM < b.distanceFromATM

\* lines 314-368: types.forEach, gaps.forEach, for baseStrike of strikes
pushed(optionData, strikes, atmStrike, maxValuePercent) ==
  LET n == Len(strikes)
      g == Len(DefaultGaps)
      \* what the passes lo..hi through the body of the loops push
      P[lo \in 1..(Len(Types) * g * n + 1), hi \in 0..(Len(Types) * g * n)] ==
        IF lo > hi THEN <<>>
        ELSE IF lo = hi
             THEN candidate(Types[((lo - 1) \div (g * n)) + 1],
                            DefaultGaps[(((lo - 1) \div n) % g) + 1],
                            strikes[((lo - 1) % n) + 1],
                            optionData, atmStrike, maxValuePercent)
             ELSE P[lo, (lo + hi) \div 2] \o P[((lo + hi) \div 2) + 1, hi]
  IN  P[1, Len(Types) * g * n]

\* lines 288-375
findBestStrategies(rawOptionData, spotPrice, maxValuePercent) ==
  LET optionData == transformOptionDataForButterfly(rawOptionData)
      strikes == strikesOf(optionData, FALSE)
  IN  IF Len(optionData) = 0 \/ Falsy(spotPrice) THEN <<>>          \* line 296
      ELSE IF Len(strikes) = 0 THEN <<>>                            \* line 307
      ELSE SortSeq(pushed(optionData, strikes, atmStrikeOf(strikes, spotPrice),
                          maxValuePercent),
                   strategyBefore)

BestTradesMaxValue == 15
BestTradesMaxDistance == 2
BestTradesMaxGap == 100
BestTradesLimit == 8

\* lines 386-397 without the test of the distance
bestTradeFilter_AnyDistance(strategy) ==
  /\ RatLeqInt(strategy.valuePercent, BestTradesMaxValue)
  /\ strategy.gap <= BestTradesMaxGap

\* lines 386-397
bestTradeFilter(strategy) ==
  /\ RatLeqInt(strategy.valuePercent, BestTradesMaxValue)
  /\ strategy.distanceFromATM <= BestTradesMaxDistance
  /\ strategy.gap <= BestTradesMaxGap

\* the cap of line 398 left out
findBestTrades_NoCap(rawOptionData, spotPrice) ==
  LET kept == FilterSeq(findBestStrategies(rawOptionData, spotPrice, BestTradesMaxValue),
                        bestTradeFilter)
  IN  Slice(kept, Len(kept))

findBestTrades(rawOptionData, spotPrice) ==
  Slice(FilterSeq(findBestStrategies(rawOptionData, spotPrice, BestTradesMaxValue),
                  bestTradeFilter),
        BestTradesLimit)

--------------------------------------------------------------------------
(* MultiButterflyChainTable (part_002, lines 54-204): the table of two-leg *)
(* butterflies with a ratio on the middle leg.                             *)

CE_LEGS ==
  << [gap |-> 50, ratio |-> Rat(2, 1)],
     [gap |-> 100, ratio |-> Rat(2, 1)],
     [gap |-> 100, ratio |-> Rat(133, 100)],
     [gap |-> 150, ratio |-> Rat(3, 2)],
     [gap |-> 150, ratio |-> Rat(2, 1)],
     [gap |-> 200, ratio |-> Rat(2, 1)],
     [gap |-> 250, ratio |-> Rat(3, 2)] >>

PE_LEGS ==
  << [gap |-> 50, ratio |-> Rat(133, 100)],
     [gap |-> 100, ratio |-> Rat(3, 2)],
     [gap |-> 100, ratio |-> Rat(133, 100)],
     [gap |-> 150, ratio |-> Rat(3, 2)],
     [gap |-> 150, ratio |-> Rat(2, 1)],
     [gap |-> 200, ratio |-> Rat(2, 1)],
     [gap |-> 250, ratio |-> Rat(2, 1)] >>

\* lines 113-116, 154-155: strikeDataMap.get(strike), as an index; the last
\* record set for the strike, 0 when undefined
strikeDataMapGet(transformedData, strike) ==
  IF \E i \in 1..Len(transformedData) : transformedData[i].strike_price = strike
  THEN CHOOSE i \in 1..Len(transformedData) :
         /\ transformedData[i].strike_price = strike
         /\ \A k \in (i + 1)..Len(transformedData) : transformedData[k].strike_price # strike
  ELSE 0

\* lines 160-166 with the last traded price taken whenever the ask is falsy
baseAskOf_Or(transformedData, baseStrike, type) ==
  LET i == strikeDataMapGet(transformedData, baseStrike)
      q == extract(transformedData[i], type)
  IN  IF i = 0 THEN null
      ELSE IF Falsy(q.ask) THEN q.ltp ELSE q.ask

\* lines 160-166: the ask of the base strike, else its last traded price
baseAskOf(transformedData, baseStrike, type) ==
  LET i == strikeDataMapGet(transformedData, baseStrike)
      data == transformedData[i]
  IN  IF i = 0 THEN null
      ELSE IF type = "CALL"
           THEN Coalesce(toNumberOrNull(Coalesce(data.call_ask, data.CE_askprice)),
                         toNumberOrNull(Coalesce(data.call_ltp, data.CE_ltp)))
           ELSE Coalesce(toNumberOrNull(Coalesce(data.put_ask, data.PE_askprice)),
                         toNumberOrNull(Coalesce(data.put_ltp, data.PE_ltp)))

\* lines 168-174: the bid of the middle strike, else its last traded price
middleBidOf(transformedData, middleStrike, type) ==
  LET i == strikeDataMapGet(transformedData, middleStrike)
      data == transformedData[i]
  IN  IF i = 0 THEN null
      ELSE IF type = "CALL"
           THEN Coalesce(toNumberOrNull(Coalesce(data.call_bid, data.CE_bidprice)),
                         toNumberOrNull(Coalesce(data.call_ltp, data.CE_ltp)))
           ELSE Coalesce(toNumberOrNull(Coalesce(data.put_bid, data.PE_bidprice)),
                         toNumberOrNull(Coalesce(data.put_ltp, data.PE_ltp)))

\* lines 139-192: legValues of one row, a function on the indexes of the legs
\* that got an entry (the key leg0 is index 1)
legValuesOf(transformedData, strike, type) ==
  LET legsOfType == IF type = "CALL" THEN CE_LEGS ELSE PE_LEGS
      middleStrike(leg) == IF type = "CALL" THEN strike + leg.gap ELSE strike - leg.gap
      baseAsk == baseAskOf(transformedData, strike, type)
      middleBid(leg) == middleBidOf(transformedData, middleStrike(leg), type)
      kept == {n \in 1..Len(legsOfType) :
                 baseAsk # null /\ middleBid(legsOfType[n]) # null}       \* line 177
      rate(leg) == Rat(baseAsk * leg.ratio.den - leg.ratio.num * middleBid(leg),
                       leg.ratio.den)                                     \* line 182
      value(leg) == IF baseAsk > 0                                        \* line 186
                    THEN Rat(100 * rate(leg).num, rate(leg).den * baseAsk)
                    ELSE RatOfInt(0)
  IN  [n \in kept |->
         [rate |-> rate(legsOfType[n]),
          value |-> value(legsOfType[n]),
          ratio |-> legsOfType[n].ratio,
          firstAsk |-> baseAsk,
          middleBid |-> middleBid(legsOfType[n])]]

\* lines 95-204: butterflyData
MultiButterflyChainTable(optionData, spotPrice, type) ==
  IF optionData.kind # "array" \/ Len(optionData.rows) = 0 \/ Falsy(spotPrice)
  THEN <<>>                                                         \* line 96
  ELSE LET transformedData == transformOptionDataForButterfly(optionData)
           strikes == strikesOf(transformedData, FALSE)
           atm == IF Len(strikes) > 0 THEN atmStrikeOf(strikes, spotPrice) ELSE 0
           sortedStrikes == strikesOf(transformedData, type # "CALL")
           row(strike) ==
             LET strikeInfo == transformedData[strikeDataMapGet(transformedData, strike)]
                 q == IF type = "CALL"
                      THEN [bid |-> strikeInfo.call_bid, ask |-> strikeInfo.call_ask,
                            ltp |-> strikeInfo.call_ltp]
                      ELSE [bid |-> strikeInfo.put_bid, ask |-> strikeInfo.put_ask,
                            ltp |-> strikeInfo.put_ltp]
             IN  [strike |-> strike,
                  bid |-> Coalesce(toNumberOrNull(q.bid), 0),
                  ask |-> Coalesce(toNumberOrNull(q.ask), 0),
                  ltp |-> Coalesce(toNumberOrNull(q.ltp), 0),
                  isATM |-> strike = atm,
                  legs |-> legValuesOf(transformedData, strike, type)]
       IN  [i \in 1..Len(sortedStrikes) |-> row(sortedStrikes[i])]

--------------------------------------------------------------------------
(* The snapshots the calls are made on.                                    *)

MaxLegs == 3          \* strikes of a chain whose every quote is enumerated
WideStrikes == 13     \* strikes of a chain that follows a price curve
MaxRows == 4          \* records of a normalized list in arbitrary order
MaxSpotSteps == 8     \* spot prices tried above the first strike
BaseStrike == 24000   \* the first strike of every chain

\* a normalized strike record with the six quotes given
Quote(cb, ca, cl, pb, pa, pl) ==
  [EmptyRow EXCEPT !.call_bid = cb, !.call_ask = ca, !.call_ltp = cl,
                   !.put_bid = pb, !.put_ask = pa, !.put_ltp = pl]

Healthy == Quote(95, 100, 98, 95, 100, 98)

\* the quotes a strike may carry
Palette ==
  { Healthy,
    Quote(40, 95, 60, 38, 104, 70),
    Quote(97, 104, 99, 96, 103, 99),
    Quote(undefined, null, 98, null, undefined, 97),           \* last price only
    Quote(0, 0, 98, 0, 0, 97),                                 \* zero quotes
    Quote(undefined, undefined, undefined, null, null, null),  \* no quote at all
    [EmptyRow EXCEPT !.CE_bidprice = 95, !.CE_askprice = 100, !.CE_ltp = 98,
                     !.PE_bidprice = 94, !.PE_askprice = 101, !.PE_ltp = 97] }

At(q, strike) == [q EXCEPT !.strike_price = strike]

Steps == {25, 50, 100}

\* chains of up to MaxLegs strikes, 50 apart, every quote from the palette
SmallChains ==
  UNION { { [i \in 1..n |-> At(qs[i], BaseStrike + 50 * (i - 1))] :
            qs \in [1..n -> Palette] } : n \in 0..MaxLegs }

\* call prices fall and put prices rise along the strikes, both convex
CurveQuote(i) ==
  LET c == 1000 - 60 * i + i * i
      p == 300 + 40 * i + i * i
  IN  Quote(c - 2, c, c - 1, p - 2, p, p - 1)

\* chains of WideStrikes strikes, all with the same quote or along the curve
WideChains ==
  { [i \in 1..WideStrikes |->
       At(IF flat THEN Healthy ELSE CurveQuote(i), BaseStrike + step * (i - 1))] :
    flat \in BOOLEAN, step \in Steps }

\* normalized lists in arbitrary order, strikes possibly repeated
LooseChains ==
  UNION { { [i \in 1..n |-> At(CurveQuote(i), ks[i])] :
            ks \in [1..n -> {BaseStrike, BaseStrike + 50, BaseStrike + 100}] } :
          n \in 1..MaxRows }

\* single chains: quotes that make a rate negative beside rates that are positive,
OddChains ==
  { LET cheap == Quote(40, 95, 60, 38, 104, 70)
        dear == Quote(97, 104, 99, 96, 103, 99)
        qs == <<cheap, dear, cheap, Healthy, cheap>>
    IN  [i \in 1..5 |-> At(qs[i], BaseStrike + 50 * (i - 1))],
    \* strikes down to 0 and below
    [i \in 1..4 |-> At(Healthy, 50 * (i - 2))],
    \* strikes off the grid of 50: a first strike, then three strikes 50 apart
    \* that start 110 above it
    [i \in 1..4 |-> At(CurveQuote(i), IF i = 1 THEN BaseStrike
                                       ELSE BaseStrike + 110 + 50 * (i - 2))] }

\* the raw contract rows of a normalized record: one CE row and one PE row
RawRows(rec) ==
  << [EmptyRow EXCEPT !.strike_price = rec.strike_price, !.option_type = "CE",
                      !.ltp = rec.call_ltp, !.bid_price = rec.call_bid,
                      !.ask_price = rec.call_ask],
     [EmptyRow EXCEPT !.strike_price = rec.strike_price, !.option_type = "PE",
                      !.ltp = rec.put_ltp, !.bid = rec.put_bid,
                      !.ask = rec.put_ask] >>

IndexRow == [EmptyRow EXCEPT !.strike_price = SENTINEL, !.ltp = BaseStrike]

\* single raw feeds: rows of strike 0 and of a negative strike,
OddFeeds ==
  { <<IndexRow>> \o RawRows(At(Healthy, 100)) \o RawRows(At(Healthy, 50))
      \o RawRows(At(Healthy, 0)) \o RawRows(At(Healthy, -50)),
    \* rows that carry a symbol: a put of ACE, a call of PEL, and rows of
    \* NIFTY that state no option_type
    << [EmptyRow EXCEPT !.strike_price = BaseStrike, !.option_type = "PE",
                        !.symbol = <<"A", "C", "E", "2", "4", "P", "E">>,
                        !.bid_price = 80, !.ask_price = 85, !.ltp = 82],
       [EmptyRow EXCEPT !.strike_price = BaseStrike + 50, !.option_type = "CE",
                        !.symbol = <<"P", "E", "L", "2", "4", "C", "E">>,
                        !.bid_price = 95, !.ask_price = 100, !.ltp = 98],
       [EmptyRow EXCEPT !.strike_price = BaseStrike + 100,
                        !.symbol = <<"N", "I", "F", "T", "Y", "C", "E">>,
                        !.bid_price = 60, !.ask_price = 62, !.ltp = 61],
       [EmptyRow EXCEPT !.strike_price = BaseStrike + 100,
                        !.symbol = <<"N", "I", "F", "T", "Y", "P", "E">>,
                        !.bid_price = 70, !.ask_price = 72, !.ltp = 71] >> }

\* the quotes a raw feed carries
RawPalette ==
  { Healthy,
    Quote(undefined, null, 98, null, undefined, 97),
    Quote(0, 0, 98, 0, 0, 97) }

\* raw feeds: the index row, then the rows of the strikes, highest strike first
RawFeeds ==
  UNION { { LET F[i \in 0..n] ==
                  IF i = 0 THEN <<IndexRow>>
                  ELSE F[i - 1] \o RawRows(At(qs[i], BaseStrike + 50 * (n - i)))
            IN  F[n] : qs \in [1..n -> RawPalette] } : n \in 0..MaxLegs }

MaxSplit == 3         \* rows of a feed that sends one contract in pieces

\* the partial rows a feed may send
SplitRows ==
  LET ce == [EmptyRow EXCEPT !.strike_price = BaseStrike, !.option_type = "CE"]
  IN  { [ce EXCEPT !.bid_price = 95],                                   \* bid only
        [ce EXCEPT !.ask_price = 100, !.bid_price = null],              \* ask only
        [ce EXCEPT !.ltp = 98, !.open_interest = 500, !.ask = null],    \* last price
        [ce EXCEPT !.bid = 90, !.ask = 99, !.oi = 700, !.ltp = null],   \* short names
        [ce EXCEPT !.bid_price = 0, !.bid = 91, !.open_interest = 0],   \* zero values
        [ce EXCEPT !.strike_price = BaseStrike + 50, !.bid_price = 60, !.ask_price = 62],
        [ce EXCEPT !.option_type = "PE", !.bid_price = 80, !.ask_price = 85,
                   !.ltp = 82, !.oi = 300] }

\* raw feeds of up to MaxSplit partial rows in any order
SplitFeeds ==
  UNION { [1..n -> SplitRows] : n \in 1..MaxSplit }

SpotsAbove == {BaseStrike + 25 * k : k \in 0..MaxSpotSteps}

NoCall ==
  [fn |-> "none", type |-> "", lower |-> 0, middle |-> 0, upper |-> 0,
   gap |-> 0, maxValuePercent |-> 0, valuePercent |-> RatOfInt(0),
   distanceFromATM |-> 0, rate |-> 0, firstLegPremium |-> 0]

\* the collaborators are not running
HookOff == [mounted |-> FALSE]
ServerOff == [running |-> FALSE]
BrowserOff == [running |-> FALSE]

NoFetch == hook = HookOff /\ server = ServerOff /\ browser = BrowserOff

NoReturn ==
  /\ retRate = NullResult
  /\ retNumber = RatOfInt(0)
  /\ retLabel = ""
  /\ retChain = <<>>
  /\ retStrategies = <<>>
  /\ retRecords = <<>>
  /\ retTable = <<>>

Init ==
  /\ \/ /\ chainArg \in {ArrayOf(c) : c \in SmallChains \cup RawFeeds \cup LooseChains
                                         \cup OddChains \cup OddFeeds}
        /\ spotArg \in {BaseStrike, BaseStrike + 100}
     \/ /\ chainArg \in {ArrayOf(c) : c \in WideChains}
              \cup {NotAnArray("undefined"), NotAnArray("null"), ArrayOf(<<>>)}
        /\ spotArg \in SpotsAbove \cup {undefined, 0}
     \/ /\ chainArg \in {ArrayOf(c) : c \in SplitFeeds}
        /\ spotArg = BaseStrike
  /\ call = NoCall
  /\ NoReturn
  /\ NoFetch

--------------------------------------------------------------------------
(* The calls.  A call is made on the snapshot when no call is pending and  *)
(* leaves its arguments and its return value in the state; Return forgets  *)
(* them.                                                                   *)

Idle == call.fn = "none"

\* the strikes a caller may price from: the positive strikes of the snapshot
BaseStrikes ==
  {chainArg.rows[i].strike_price : i \in 1..Len(chainArg.rows)} \ {undefined, null}

CallTransformOptionDataForButterfly ==
  /\ Idle
  /\ call' = [NoCall EXCEPT !.fn = "transformOptionDataForButterfly"]
  /\ retRecords' = transformOptionDataForButterfly(chainArg)
  /\ UNCHANGED fetchVars
  /\ UNCHANGED <<chainArg, spotArg, retRate, retNumber, retLabel, retChain, retStrategies, retTable>>

\* the list just returned is handed to the function again, as a consumer
\* that receives normalized data does (lines 212, 293; part_002 line 98)
CallTransformOptionDataForButterflyOfOutput ==
  /\ call.fn = "transformOptionDataForButterfly"
  /\ call' = [call EXCEPT !.fn = "transformOptionDataForButterfly.again"]
  /\ retRecords' = transformOptionDataForButterfly(ArrayOf(retRecords))
  /\ UNCHANGED fetchVars
  /\ UNCHANGED <<chainArg, spotArg, retRate, retNumber, retLabel, retChain, retStrategies, retTable>>

CallMultiButterflyChainTable ==
  /\ Idle
  /\ \E type \in {"CALL", "PUT"} :
       /\ call' = [NoCall EXCEPT !.fn = "MultiButterflyChainTable", !.type = type]
       /\ retTable' = MultiButterflyChainTable(chainArg, spotArg, type)
  /\ UNCHANGED fetchVars
  /\ UNCHANGED <<chainArg, spotArg, retRate, retNumber, retLabel, retChain, retStrategies,
                 retRecords>>

CallCalculateButterflyRate ==
  /\ Idle
  /\ \E type \in {"CALL", "PUT"}, i \in 1..Len(DefaultGaps), strike \in BaseStrikes :
       LET t == legs(type, strike, DefaultGaps[i])
       IN  /\ call' = [NoCall EXCEPT !.fn = "calculateButterflyRate", !.type = type,
                                     !.lower = t.lower, !.middle = t.middle,
                                     !.upper = t.upper, !.gap = DefaultGaps[i]]
           /\ retRate' = calculateButterflyRate(t.lower, t.middle, t.upper,
                            transformOptionDataForButterfly(chainArg), type)
  /\ UNCHANGED fetchVars
  /\ UNCHANGED <<chainArg, spotArg, retNumber, retLabel, retChain, retStrategies, retRecords, retTable>>

\* lines 259, 345: the value percentage of the butterfly just priced
CallCalculateValuePercent ==
  /\ call.fn = "calculateButterflyRate"
  /\ ~retRate.isNull
  /\ call' = [call EXCEPT !.fn = "calculateValuePercent", !.rate = retRate.rate,
                          !.firstLegPremium = retRate.firstLegPremium]
  /\ retNumber' = calculateValuePercent(retRate.rate, retRate.firstLegPremium)
  /\ UNCHANGED fetchVars
  /\ UNCHANGED <<chainArg, spotArg, retRate, retLabel, retChain, retStrategies, retRecords, retTable>>

\* the value percentage just computed is classified
CallGetRecommendationOfValue ==
  /\ call.fn = "calculateValuePercent"
  /\ call' = [call EXCEPT !.fn = "getRecommendation", !.valuePercent = retNumber]
  /\ retLabel' = getRecommendation(retNumber)
  /\ UNCHANGED fetchVars
  /\ UNCHANGED <<chainArg, spotArg, retRate, retNumber, retChain, retStrategies, retRecords, retTable>>

CallCalculateButterflyChain ==
  /\ Idle
  /\ \E type \in {"CALL", "PUT"} :
       /\ call' = [NoCall EXCEPT !.fn = "calculateButterflyChain", !.type = type]
       /\ retChain' = calculateButterflyChain(chainArg, spotArg, type, DefaultGaps)
  /\ UNCHANGED fetchVars
  /\ UNCHANGED <<chainArg, spotArg, retRate, retNumber, retLabel, retStrategies, retRecords, retTable>>

MaxValues == {15, 20, 50}

CallFindBestStrategies ==
  /\ Idle
  /\ \E maxValuePercent \in MaxValues :
       /\ call' = [NoCall EXCEPT !.fn = "findBestStrategies",
                                 !.maxValuePercent = maxValuePercent]
       /\ retStrategies' = findBestStrategies(chainArg, spotArg, maxValuePercent)
  /\ UNCHANGED fetchVars
  /\ UNCHANGED <<chainArg, spotArg, retRate, retNumber, retLabel, retChain, retRecords, retTable>>

CallFindBestTrades ==
  /\ Idle
  /\ call' = [NoCall EXCEPT !.fn = "findBestTrades"]
  /\ retStrategies' = findBestTrades(chainArg, spotArg)
  /\ UNCHANGED fetchVars
  /\ UNCHANGED <<chainArg, spotArg, retRate, retNumber, retLabel, retChain, retRecords, retTable>>

Return ==
  /\ ~Idle
  /\ call' = NoCall
  /\ retRate' = NullResult
  /\ retNumber' = RatOfInt(0)
  /\ retLabel' = ""
  /\ retChain' = <<>>
  /\ retStrategies' = <<>>
  /\ retRecords' = <<>>
  /\ retTable' = <<>>
  /\ UNCHANGED fetchVars
  /\ UNCHANGED <<chainArg, spotArg>>

Next ==
  \/ CallTransformOptionDataForButterfly
  \/ CallTransformOptionDataForButterflyOfOutput
  \/ CallCalculateButterflyRate
  \/ CallCalculateValuePercent
  \/ CallGetRecommendationOfValue
  \/ CallCalculateButterflyChain
  \/ CallFindBestStrategies
  \/ CallFindBestTrades
  \/ CallMultiButterflyChainTable
  \/ Return

Spec == Init /\ [][Next]_vars

--------------------------------------------------------------------------
(* The classification rules on their own arguments.                        *)

MaxPercent == 30      \* value percentages tried, in halves, up to this
MaxDistance == 4      \* distances from ATM tried

ValuePercents == {Rat(k, 2) : k \in (-2)..(2 * MaxPercent)} \cup {NaN}

\* the calculation module at rest on an empty snapshot
NoCalc ==
  /\ chainArg = ArrayOf(<<>>)
  /\ spotArg = undefined
  /\ call = NoCall
  /\ NoReturn

RulesInit ==
  /\ NoCalc
  /\ NoFetch

CallGetDetailedRecommendation ==
  /\ Idle
  /\ \E v \in ValuePercents, d \in 0..MaxDistance, i \in 1..Len(DefaultGaps) :
       /\ call' = [NoCall EXCEPT !.fn = "getDetailedRecommendation",
                                 !.valuePercent = v, !.distanceFromATM = d,
                                 !.gap = DefaultGaps[i]]
       /\ retLabel' = getDetailedRecommendation(v, d, DefaultGaps[i])
  /\ UNCHANGED fetchVars
  /\ UNCHANGED <<chainArg, spotArg, retRate, retNumber, retChain, retStrategies, retRecords, retTable>>

CallGetRecommendation ==
  /\ Idle
  /\ \E v \in ValuePercents :
       /\ call' = [NoCall EXCEPT !.fn = "getRecommendation", !.valuePercent = v]
       /\ retLabel' = getRecommendation(v)
  /\ UNCHANGED fetchVars
  /\ UNCHANGED <<chainArg, spotArg, retRate, retNumber, retChain, retStrategies, retRecords, retTable>>

CallGetAlertType ==
  /\ Idle
  /\ \E v \in ValuePercents, d \in 0..MaxDistance, i \in 1..Len(DefaultGaps) :
       /\ call' = [NoCall EXCEPT !.fn = "getAlertType",
                                 !.valuePercent = v, !.distanceFromATM = d,
                                 !.gap = DefaultGaps[i]]
       /\ retLabel' = getAlertType(v, d, DefaultGaps[i])
  /\ UNCHANGED fetchVars
  /\ UNCHANGED <<chainArg, spotArg, retRate, retNumber, retChain, retStrategies, retRecords, retTable>>

RulesNext ==
  \/ CallGetDetailedRecommendation
  \/ CallGetRecommendation
  \/ CallGetAlertType
  \/ Return

RulesSpec == RulesInit /\ [][RulesNext]_vars

--------------------------------------------------------------------------
(* useOptionChain (src/src/hooks/useOptionChain.ts).  A response is named  *)
(* by the number of the request it answers; the chain and the spot price   *)
(* the hook holds are named by the response they were taken from, 0 for    *)
(* the initial [] and undefined; data.withSpot says that the response the  *)
(* chain came from carried a spot price.  The state updates of one         *)
(* completion are rendered together.                                       *)

MaxRequests == 4      \* requests the hook issues in one behaviour
maxRetries == 3

Expiries == {"e1", "e2"}

\* the bodies a successful response may have (lines 65-81)
Shapes == {"records", "array", "data", "dataWithSpot", "other"}

\* useState / useRef initial values (lines 33-43); no effect has run yet
HookInit ==
  [mounted |-> TRUE,
   data |-> [id |-> 0, expiry |-> "", withSpot |-> FALSE],
   spotPrice |-> 0,
   selectedExpiry |-> "",
   loading |-> TRUE,
   error |-> "null",
   isLive |-> FALSE,
   retryCount |-> 0,
   interval |-> "none",     \* the selectedExpiry the fetchData of the interval closes over
   pending |-> {},          \* requests in flight: [id, expiry]
   issued |-> 0,            \* requests issued so far
   newest |-> 0,            \* the highest-numbered request answered with a chain
   answered |-> {},         \* the expiries of the requests answered with a chain
   failures |-> 0]          \* failed completions since the last success or refresh

\* lines 48-56: fetchData of a render with selectedExpiry = expiry starts a request
issue(h, expiry) ==
  [h EXCEPT !.pending = @ \cup {[id |-> h.issued + 1, expiry |-> expiry]},
            !.issued = @ + 1]

\* lines 109-119: the effect runs after mount and after selectedExpiry changed
RunEffect ==
  /\ hook.interval # hook.selectedExpiry
  /\ hook.issued < MaxRequests
  /\ hook' = [issue(hook, hook.selectedExpiry) EXCEPT !.interval = hook.selectedExpiry]
  /\ UNCHANGED <<server, browser>>
  /\ UNCHANGED calcVars

\* line 112: the interval fires and calls the fetchData it was set with
Poll ==
  /\ hook.interval # "none"
  /\ hook.issued < MaxRequests
  /\ hook' = issue(hook, hook.interval)
  /\ UNCHANGED <<server, browser>>
  /\ UNCHANGED calcVars

\* lines 102-106
refresh ==
  /\ hook.issued < MaxRequests
  /\ hook' = [issue(hook, hook.selectedExpiry) EXCEPT !.loading = TRUE, !.retryCount = 0,
                                                      !.failures = 0]
  /\ UNCHANGED <<server, browser>>
  /\ UNCHANGED calcVars

\* the user picks an expiry (onExpiryChange)
setSelectedExpiry ==
  /\ \E e \in Expiries :
       /\ e # hook.selectedExpiry
       /\ hook' = [hook EXCEPT !.selectedExpiry = e]
  /\ UNCHANGED <<server, browser>>
  /\ UNCHANGED calcVars

\* lines 62-87: the response of request r arrived with status ok and a body
\* of the given shape; hasDates: the body lists expiry dates
fetchDataSucceeds ==
  /\ \E r \in hook.pending, shape \in Shapes, hasDates \in BOOLEAN :
       \* the dates matter to a json.records body only
       /\ shape # "records" => hasDates
       /\ LET setsData == shape # "other"
              setsSpot == shape \in {"records", "dataWithSpot"}
              got == [id |-> r.id, expiry |-> r.expiry, withSpot |-> setsSpot]
              \* line 72: !selectedExpiry reads the value the request was made with
              setsExpiry == shape = "records" /\ r.expiry = "" /\ hasDates
          IN  hook' = [hook EXCEPT
                         !.pending = @ \ {r},
                         !.data = IF setsData THEN got ELSE @,
                         !.spotPrice = IF setsSpot THEN r.id ELSE @,
                         !.selectedExpiry = IF setsExpiry THEN "e1" ELSE @,
                         !.newest = IF setsData /\ r.id > @ THEN r.id ELSE @,
                         !.answered = IF setsData THEN @ \cup {r.expiry} ELSE @,
                         !.isLive = TRUE,
                         !.error = "null",
                         !.retryCount = 0,
                         !.loading = FALSE,
                         !.failures = 0]
  /\ UNCHANGED <<server, browser>>
  /\ UNCHANGED calcVars

\* line 92 with <= for <
retryAllowed_Inclusive(retryCount) == retryCount <= maxRetries

\* line 92
retryAllowed(retryCount) == retryCount < maxRetries

\* lines 88-99: the fetch of request r was rejected, or its status was not ok
fetchDataFails ==
  /\ \E r \in hook.pending :
       hook' = [hook EXCEPT
                  !.pending = @ \ {r},
                  !.isLive = FALSE,
                  !.retryCount = IF retryAllowed(@) THEN @ + 1 ELSE @,
                  !.error = IF retryAllowed(hook.retryCount) THEN "retrying" ELSE "message",
                  !.loading = IF retryAllowed(hook.retryCount) THEN @ ELSE FALSE,
                  !.failures = IF @ <= maxRetries THEN @ + 1 ELSE @]
  /\ UNCHANGED <<server, browser>>
  /\ UNCHANGED calcVars

HookSpecInit ==
  /\ NoCalc
  /\ hook = HookInit
  /\ server = ServerOff
  /\ browser = BrowserOff

HookNext ==
  \/ RunEffect
  \/ Poll
  \/ refresh
  \/ setSelectedExpiry
  \/ fetchDataSucceeds
  \/ fetchDataFails

HookSpec == HookSpecInit /\ [][HookNext]_vars

--------------------------------------------------------------------------
(* fetchOptionChain of the axios server (src/server.js, lines 39-158): the *)
(* module variables and the position of one call.  The call that retries   *)
(* (line 145) is the same call going through the function again.           *)

MAX_RETRIES == 3
MaxAttempts == 5      \* retries followed within one call

\* lines 39-43, no call made; cookies: the string is not empty; cachedData:
\* a snapshot is held; fresh: it is younger than CACHE_DURATION
ServerInit ==
  [running |-> TRUE,
   cookies |-> FALSE,
   cachedData |-> FALSE,
   fresh |-> FALSE,
   retryCount |-> 0,
   pc |-> "idle",           \* idle, enter, initSession, request, returned
   attempts |-> 0,          \* retries made by the pending call
   onlyDenied |-> TRUE,     \* every chain request of the call got 401/403, every
                            \* initSession of the call succeeded
   result |-> "none"]       \* cached, data, stale, or error when the call throws

\* lines 150-156: what a failed call ends with
staleOrThrow(sv) ==
  [sv EXCEPT !.pc = "returned", !.result = IF sv.cachedData THEN "stale" ELSE "error"]

\* a route handler, or the startup, calls fetchOptionChain
CallFetchOptionChain ==
  /\ server.pc = "idle"
  /\ server' = [server EXCEPT !.pc = "enter", !.attempts = 0, !.onlyDenied = TRUE,
                              !.result = "none"]
  /\ UNCHANGED <<hook, browser>>
  /\ UNCHANGED calcVars

\* lines 96-109: the cache test, then the session test
EnterFetchOptionChain ==
  /\ server.pc = "enter"
  /\ server' = IF server.cachedData /\ server.fresh
               THEN [server EXCEPT !.pc = "returned", !.result = "cached"]
               ELSE IF ~server.cookies
                    THEN [server EXCEPT !.pc = "initSession"]
                    ELSE [server EXCEPT !.pc = "request"]
  /\ UNCHANGED <<hook, browser>>
  /\ UNCHANGED calcVars

\* lines 66-84: the page answered, with or without set-cookie headers
initSessionSucceeds ==
  /\ server.pc = "initSession"
  /\ \E setCookies \in BOOLEAN :
       server' = [server EXCEPT !.cookies = setCookies, !.retryCount = 0,
                                !.pc = "request"]
  /\ UNCHANGED <<hook, browser>>
  /\ UNCHANGED calcVars

\* lines 85-88, 104-106: initSession returns false and the call throws
initSessionFails ==
  /\ server.pc = "initSession"
  /\ server' = staleOrThrow([server EXCEPT !.onlyDenied = FALSE])
  /\ UNCHANGED <<hook, browser>>
  /\ UNCHANGED calcVars

\* lines 118-123: a body with records
requestSucceeds ==
  /\ server.pc = "request"
  /\ server' = [server EXCEPT !.cachedData = TRUE, !.fresh = TRUE, !.retryCount = 0,
                              !.onlyDenied = FALSE,
                              !.pc = "returned", !.result = "data"]
  /\ UNCHANGED <<hook, browser>>
  /\ UNCHANGED calcVars

\* lines 136-147: status 401 or 403
requestDenied ==
  /\ server.pc = "request"
  /\ server.attempts < MaxAttempts
  /\ server' = IF server.retryCount < MAX_RETRIES
               THEN [server EXCEPT !.cookies = FALSE,
                                   !.retryCount = @ + 1,
                                   !.attempts = @ + 1,
                                   !.pc = "enter"]
               ELSE staleOrThrow([server EXCEPT !.cookies = FALSE])
  /\ UNCHANGED <<hook, browser>>
  /\ UNCHANGED calcVars

\* lines 124-126, 128-134: another status, no response, or a body without records
requestFails ==
  /\ server.pc = "request"
  /\ server' = staleOrThrow([server EXCEPT !.onlyDenied = FALSE])
  /\ UNCHANGED <<hook, browser>>
  /\ UNCHANGED calcVars

\* line 96: CACHE_DURATION has passed since lastFetchTime
CacheExpires ==
  /\ server.fresh
  /\ server' = [server EXCEPT !.fresh = FALSE]
  /\ UNCHANGED <<hook, browser>>
  /\ UNCHANGED calcVars

\* the caller takes the result
ReturnFetchOptionChain ==
  /\ server.pc = "returned"
  /\ server' = [server EXCEPT !.pc = "idle"]
  /\ UNCHANGED <<hook, browser>>
  /\ UNCHANGED calcVars

ServerSpecInit ==
  /\ NoCalc
  /\ hook = HookOff
  /\ server = ServerInit
  /\ browser = BrowserOff

ServerNext ==
  \/ CallFetchOptionChain
  \/ EnterFetchOptionChain
  \/ initSessionSucceeds
  \/ initSessionFails
  \/ requestSucceeds
  \/ requestDenied
  \/ requestFails
  \/ CacheExpires
  \/ ReturnFetchOptionChain

ServerSpec == ServerSpecInit /\ [][ServerNext]_vars

--------------------------------------------------------------------------
(* The Puppeteer server (part_000, lines 40-357): the module variables and *)
(* the callers that run initBrowser, fetchOptionChain and closeBrowser.    *)
(* A caller takes one step from one await to the next; what the code does  *)
(* between two awaits is one step.  A browser is named by the number of    *)
(* its launch, its page by the same number; 0 is null.                     *)

MaxCallers == 2       \* route handlers running at a time
MaxLaunches == 3      \* browsers launched in one behaviour
MaxFetchRetries == 1  \* restarts of one fetchOptionChain after a lost session

Procs == 1..MaxCallers

IdleProc == [pc |-> "idle", cont |-> "none", mine |-> 0, target |-> 0, retries |-> 0]

\* lines 40-46, the server listening and the startup not yet run
BrowserInit ==
  [running |-> TRUE,
   handle |-> 0,             \* the variable browser
   page |-> 0,
   cachedData |-> FALSE,
   fresh |-> FALSE,          \* Date.now() - lastFetchTime < CACHE_DURATION
   isInitializing |-> FALSE,
   browserReady |-> FALSE,
   started |-> FALSE,        \* the callback of app.listen has run
   launched |-> 0,           \* browsers launched so far
   live |-> {},              \* the browsers launched and not closed
   pages |-> {},             \* the pages opened and not closed
   nulledBy |-> "none",      \* the function that last set page to null
   procs |-> [p \in Procs |-> IdleProc]]

\* the handler of caller p responds
finish(b, p) == [b EXCEPT !.procs[p] = IdleProc]

\* lines 52-60: initBrowser up to its first await
initEntry(b, p, cont) ==
  IF b.isInitializing
  THEN [b EXCEPT !.procs[p].pc = "initWait", !.procs[p].cont = cont]
  ELSE [b EXCEPT !.isInitializing = TRUE,
                 !.procs[p].pc = "launch", !.procs[p].cont = cont]

\* lines 158-171: page.url() and page.evaluate(...) on the variable page
fetchUsePage(b, p) ==
  IF b.page = 0
  THEN [b EXCEPT !.procs[p].pc = "typeError"]
  ELSE [b EXCEPT !.procs[p].pc = "evaluate", !.procs[p].target = b.page]

\* lines 138-153: fetchOptionChain up to its first await
fetchEntry(b, p) ==
  IF b.cachedData /\ b.fresh THEN finish(b, p)
  ELSE IF ~b.browserReady \/ b.page = 0 THEN initEntry(b, p, "fetch")
  ELSE fetchUsePage(b, p)

\* initBrowser returns to its caller: lines 149-153, 347-351, 384-386
initReturns(b, p, success) ==
  CASE b.procs[p].cont = "fetch" ->
         IF success THEN fetchUsePage(b, p) ELSE finish(b, p)
    [] b.procs[p].cont = "startup" -> fetchEntry(b, p)
    [] OTHER -> finish(b, p)

\* lines 127-131: if (browser) await browser.close(), then both set to null
initCloseBrowserCall(b, p) ==
  IF b.handle # 0
  THEN [b EXCEPT !.procs[p].pc = "initCloseBrowser", !.procs[p].target = b.handle]
  ELSE initReturns([b EXCEPT !.page = 0, !.handle = 0,
                             !.nulledBy = "initBrowser"], p, FALSE)

\* lines 120-126: the catch block of initBrowser up to its first await
initCatch(b, p) ==
  LET b1 == [b EXCEPT !.isInitializing = FALSE, !.browserReady = FALSE]
  IN  IF b1.page # 0
      THEN [b1 EXCEPT !.procs[p].pc = "initClosePage", !.procs[p].target = b1.page]
      ELSE initCloseBrowserCall(b1, p)

\* closeBrowser returns to its caller: lines 222-233, 346-347
closeReturns(b, p) ==
  IF b.procs[p].cont = "refresh" THEN [b EXCEPT !.procs[p].pc = "refreshWait"]
  ELSE IF ~b.isInitializing
       THEN [b EXCEPT !.procs[p].pc = "retryWait", !.procs[p].retries = @ + 1]
       ELSE finish(b, p)

\* lines 251-254
closeBrowserCall(b, p) ==
  IF b.handle # 0
  THEN [b EXCEPT !.procs[p].pc = "closeBrowser", !.procs[p].target = b.handle]
  ELSE closeReturns(b, p)

\* lines 242-248: closeBrowser up to its first await
closeEntry(b, p, cont) ==
  LET b1 == [b EXCEPT !.browserReady = FALSE, !.procs[p].cont = cont]
  IN  IF b1.page # 0
      THEN [b1 EXCEPT !.procs[p].pc = "closePage", !.procs[p].target = b1.page]
      ELSE closeBrowserCall(b1, p)

Awaits(p, pc) == browser.procs[p].pc = pc

\* lines 360-386: the callback of app.listen calls initBrowser
Startup ==
  /\ ~browser.started
  /\ Awaits(1, "idle")
  /\ browser' = initEntry([browser EXCEPT !.started = TRUE], 1, "startup")
  /\ UNCHANGED <<hook, server>>
  /\ UNCHANGED calcVars

\* lines 274-277, 311, 326: a route calls fetchOptionChain
CallPuppeteerFetch ==
  /\ \E p \in Procs :
       /\ Awaits(p, "idle")
       /\ browser' = fetchEntry(browser, p)
  /\ UNCHANGED <<hook, server>>
  /\ UNCHANGED calcVars

\* lines 342-345: POST /refresh-browser calls closeBrowser
CallRefreshBrowser ==
  /\ \E p \in Procs :
       /\ Awaits(p, "idle")
       /\ browser' = closeEntry(browser, p, "refresh")
  /\ UNCHANGED <<hook, server>>
  /\ UNCHANGED calcVars

\* lines 54-57: the loop finds isInitializing false
InitWaitEnds ==
  /\ \E p \in Procs :
       /\ Awaits(p, "initWait")
       /\ ~browser.isInitializing
       /\ browser' = initReturns(browser, p, browser.browserReady)
  /\ UNCHANGED <<hook, server>>
  /\ UNCHANGED calcVars

\* lines 65-85: puppeteer.launch resolved; browser.newPage() is called
LaunchSucceeds ==
  /\ \E p \in Procs :
       /\ Awaits(p, "launch")
       /\ browser.launched < MaxLaunches
       /\ LET id == browser.launched + 1
          IN  browser' = [browser EXCEPT !.launched = id, !.handle = id,
                                         !.live = @ \cup {id},
                                         !.procs[p].mine = id,
                                         !.procs[p].pc = "newPage"]
  /\ UNCHANGED <<hook, server>>
  /\ UNCHANGED calcVars

\* lines 85-88: newPage resolved on a browser still open; page.setUserAgent
NewPageResolves ==
  /\ \E p \in Procs :
       /\ Awaits(p, "newPage")
       /\ browser.procs[p].mine \in browser.live
       /\ browser' = [browser EXCEPT !.page = browser.procs[p].mine,
                                     !.pages = @ \cup {browser.procs[p].mine},
                                     !.nulledBy = "none",
                                     !.procs[p].pc = "setup"]
  /\ UNCHANGED <<hook, server>>
  /\ UNCHANGED calcVars

\* lines 88-113: an await on the page resolved and the next call on the
\* variable page is made; it throws when the variable is null
SetupContinues ==
  /\ \E p \in Procs :
       /\ Awaits(p, "setup")
       /\ browser' = IF browser.page = 0 THEN initCatch(browser, p)
                     ELSE [browser EXCEPT !.procs[p].pc = "settle"]
  /\ UNCHANGED <<hook, server>>
  /\ UNCHANGED calcVars

\* lines 113-118: page.waitForTimeout resolved
SettleResolves ==
  /\ \E p \in Procs :
       /\ Awaits(p, "settle")
       /\ browser' = initReturns([browser EXCEPT !.browserReady = TRUE,
                                                 !.isInitializing = FALSE], p, TRUE)
  /\ UNCHANGED <<hook, server>>
  /\ UNCHANGED calcVars

\* line 120: an awaited call of initBrowser rejected
InitStepFails ==
  /\ \E p \in Procs :
       /\ Awaits(p, "launch") \/ Awaits(p, "newPage") \/ Awaits(p, "setup") \/ Awaits(p, "settle")
       /\ browser' = initCatch(browser, p)
  /\ UNCHANGED <<hook, server>>
  /\ UNCHANGED calcVars

\* lines 126-127: page.close() of the catch block settled
InitClosePageResolves ==
  /\ \E p \in Procs :
       /\ Awaits(p, "initClosePage")
       /\ browser' = initCloseBrowserCall(
                       [browser EXCEPT !.pages = @ \ {browser.procs[p].target}], p)
  /\ UNCHANGED <<hook, server>>
  /\ UNCHANGED calcVars

\* lines 127-131: browser.close() of the catch block settled
InitCloseBrowserResolves ==
  /\ \E p \in Procs :
       /\ Awaits(p, "initCloseBrowser")
       /\ browser' = initReturns(
                       [browser EXCEPT !.live = @ \ {browser.procs[p].target},
                                       !.pages = @ \ {browser.procs[p].target},
                                       !.page = 0, !.handle = 0,
                                       !.nulledBy = "initBrowser"], p, FALSE)
  /\ UNCHANGED <<hook, server>>
  /\ UNCHANGED calcVars

\* lines 171-210: the page answered with the chain
EvaluateSucceeds ==
  /\ \E p \in Procs :
       /\ Awaits(p, "evaluate")
       /\ browser.procs[p].target \in browser.pages
       /\ browser' = finish([browser EXCEPT !.cachedData = TRUE, !.fresh = TRUE], p)
  /\ UNCHANGED <<hook, server>>
  /\ UNCHANGED calcVars

\* lines 212-235: another error; the stale cache or the error goes to the caller
EvaluateFails ==
  /\ \E p \in Procs :
       /\ Awaits(p, "evaluate") \/ Awaits(p, "typeError")
       /\ browser' = finish(browser, p)
  /\ UNCHANGED <<hook, server>>
  /\ UNCHANGED calcVars

\* lines 216-219: the page of the call was closed under it
EvaluateTargetClosed ==
  /\ \E p \in Procs :
       /\ Awaits(p, "evaluate")
       /\ browser.procs[p].target \notin browser.pages
       /\ browser.procs[p].retries < MaxFetchRetries
       /\ browser' = closeEntry([browser EXCEPT !.browserReady = FALSE], p, "fetchRetry")
  /\ UNCHANGED <<hook, server>>
  /\ UNCHANGED calcVars

\* lines 248-251: page.close() resolved
ClosePageResolves ==
  /\ \E p \in Procs :
       /\ Awaits(p, "closePage")
       /\ browser' = closeBrowserCall(
                       [browser EXCEPT !.pages = @ \ {browser.procs[p].target},
                                       !.page = 0,
                                       !.nulledBy = "closeBrowser"], p)
  /\ UNCHANGED <<hook, server>>
  /\ UNCHANGED calcVars

\* lines 256-258: page.close() rejected, the page being closed already
ClosePageThrows ==
  /\ \E p \in Procs :
       /\ Awaits(p, "closePage")
       /\ browser.procs[p].target \notin browser.pages
       /\ browser' = closeReturns(browser, p)
  /\ UNCHANGED <<hook, server>>
  /\ UNCHANGED calcVars

\* lines 252-254: browser.close() resolved
CloseBrowserResolves ==
  /\ \E p \in Procs :
       /\ Awaits(p, "closeBrowser")
       /\ browser' = closeReturns(
                       [browser EXCEPT !.live = @ \ {browser.procs[p].target},
                                       !.pages = @ \ {browser.procs[p].target},
                                       !.handle = 0], p)
  /\ UNCHANGED <<hook, server>>
  /\ UNCHANGED calcVars

\* lines 224-225: the retry goes through fetchOptionChain again
RetryWaitEnds ==
  /\ \E p \in Procs :
       /\ Awaits(p, "retryWait")
       /\ browser' = fetchEntry(browser, p)
  /\ UNCHANGED <<hook, server>>
  /\ UNCHANGED calcVars

\* lines 346-347: the handler calls initBrowser
RefreshWaitEnds ==
  /\ \E p \in Procs :
       /\ Awaits(p, "refreshWait")
       /\ browser' = initEntry(browser, p, "refresh")
  /\ UNCHANGED <<hook, server>>
  /\ UNCHANGED calcVars

\* line 140: CACHE_DURATION has passed
PuppeteerCacheExpires ==
  /\ browser.fresh
  /\ browser' = [browser EXCEPT !.fresh = FALSE]
  /\ UNCHANGED <<hook, server>>
  /\ UNCHANGED calcVars

BrowserSpecInit ==
  /\ NoCalc
  /\ hook = HookOff
  /\ server = ServerOff
  /\ browser = BrowserInit

BrowserNext ==
  \/ Startup
  \/ CallPuppeteerFetch
  \/ CallRefreshBrowser
  \/ InitWaitEnds
  \/ LaunchSucceeds
  \/ NewPageResolves
  \/ SetupContinues
  \/ SettleResolves
  \/ InitStepFails
  \/ InitClosePageResolves
  \/ InitCloseBrowserResolves
  \/ EvaluateSucceeds
  \/ EvaluateFails
  \/ EvaluateTargetClosed
  \/ ClosePageResolves
  \/ ClosePageThrows
  \/ CloseBrowserResolves
  \/ RetryWaitEnds
  \/ RefreshWaitEnds
  \/ PuppeteerCacheExpires

BrowserSpec == BrowserSpecInit /\ [][BrowserNext]_vars

--------------------------------------------------------------------------
(* Vocabulary of the properties.                                           *)

\* the normalized chain the calculations of the pending call worked on
Chain == transformOptionDataForButterfly(chainArg)

Present(v) == v # undefined /\ v # null

HasRecord(k) == \E i \in 1..Len(Chain) : Chain[i].strike_price = k

\* the record of strike k: the first one the chain lists
RecordAt(k) ==
  Chain[CHOOSE i \in 1..Len(Chain) :
          Chain[i].strike_price = k /\ \A j \in 1..(i - 1) : Chain[j].strike_price # k]

\* the bid, ask and last traded price a record quotes for a side, read from the
\* flat field or, where that is absent, from the nested CE / PE object
QuoteOf(rec, side) ==
  LET pick(flat, nested) == IF Present(flat) THEN flat ELSE nested
  IN  IF side = "CALL"
      THEN [bid |-> pick(rec.call_bid, rec.CE_bidprice),
            ask |-> pick(rec.call_ask, rec.CE_askprice),
            ltp |-> pick(rec.call_ltp, rec.CE_ltp)]
      ELSE [bid |-> pick(rec.put_bid, rec.PE_bidprice),
            ask |-> pick(rec.put_ask, rec.PE_askprice),
            ltp |-> pick(rec.put_ltp, rec.PE_ltp)]

\* the price of a bought leg and of the sold leg, after the fallback
BoughtPrice(rec, side) ==
  IF Present(QuoteOf(rec, side).ask) THEN QuoteOf(rec, side).ask ELSE QuoteOf(rec, side).ltp
SoldPrice(rec, side) ==
  IF Present(QuoteOf(rec, side).bid) THEN QuoteOf(rec, side).bid ELSE QuoteOf(rec, side).ltp

\* the three legs have a record and a price after the fallback
Computable(lower, middle, upper, side) ==
  /\ HasRecord(lower) /\ HasRecord(middle) /\ HasRecord(upper)
  /\ Present(BoughtPrice(RecordAt(lower), side))
  /\ Present(SoldPrice(RecordAt(middle), side))
  /\ Present(BoughtPrice(RecordAt(upper), side))

Priced == call.fn = "calculateButterflyRate"

--------------------------------------------------------------------------
\* C1: when the three leg strikes have a record, the bought legs an ask and
\* the sold leg a bid, calculateButterflyRate returns
\* rate = lowerAsk - 2 * middleBid + upperAsk and firstLegPremium = lowerAsk
\* for CALL, upperAsk for PUT.
C1_Quoted ==
  /\ HasRecord(call.lower) /\ HasRecord(call.middle) /\ HasRecord(call.upper)
  /\ Present(QuoteOf(RecordAt(call.lower), call.type).ask)
  /\ Present(QuoteOf(RecordAt(call.middle), call.type).bid)
  /\ Present(QuoteOf(RecordAt(call.upper), call.type).ask)

C1_RateFormula ==
  (Priced /\ C1_Quoted) =>
    LET lowerAsk == QuoteOf(RecordAt(call.lower), call.type).ask
        middleBid == QuoteOf(RecordAt(call.middle), call.type).bid
        upperAsk == QuoteOf(RecordAt(call.upper), call.type).ask
    IN  /\ ~retRate.isNull
        /\ retRate.rate = lowerAsk - 2 * middleBid + upperAsk
        /\ retRate.firstLegPremium = IF call.type = "CALL" THEN lowerAsk ELSE upperAsk

\* the example of the claim: asks 100 and 95 around a bid of 40, CALL
C1_Witness ==
  /\ Priced /\ C1_Quoted /\ call.type = "CALL"
  /\ QuoteOf(RecordAt(call.lower), "CALL").ask = 100
  /\ QuoteOf(RecordAt(call.middle), "CALL").bid = 40
  /\ QuoteOf(RecordAt(call.upper), "CALL").ask = 95
  /\ retRate.rate = 115 /\ retRate.firstLegPremium = 100

\* C2: the price of each bought leg is its ask, and its last traded price
\* only when the ask is null or undefined; the price of the sold leg is its
\* bid, and its last traded price only when the bid is missing; a present ask
\* or bid, 0 included, is never replaced.
C2_TraderSidePrices ==
  (Priced /\ ~retRate.isNull) =>
    LET low == QuoteOf(RecordAt(call.lower), call.type)
        mid == QuoteOf(RecordAt(call.middle), call.type)
        up == QuoteOf(RecordAt(call.upper), call.type)
        lowerUsed == IF Present(low.ask) THEN low.ask ELSE low.ltp
        middleUsed == IF Present(mid.bid) THEN mid.bid ELSE mid.ltp
        upperUsed == IF Present(up.ask) THEN up.ask ELSE up.ltp
    IN  /\ retRate.firstLegPremium = IF call.type = "CALL" THEN lowerUsed ELSE upperUsed
        /\ retRate.rate - lowerUsed - upperUsed = -2 * middleUsed

\* a leg quoted at 0 with a last traded price beside it, and a leg with no ask
C2_Witness ==
  /\ Priced /\ ~retRate.isNull
  /\ QuoteOf(RecordAt(call.lower), call.type).ask = 0
  /\ Present(QuoteOf(RecordAt(call.lower), call.type).ltp)
  /\ QuoteOf(RecordAt(call.lower), call.type).ltp # 0
  /\ ~Present(QuoteOf(RecordAt(call.upper), call.type).ask)
  /\ ~Present(QuoteOf(RecordAt(call.middle), call.type).bid)

\* C3: calculateButterflyRate returns null exactly when one of the three
\* strikes has no record or one of the three prices is still null after the
\* fallback; such a combination is in no row of the chain matrix and in no
\* entry of the ranked list.
C3_AbsentResult ==
  /\ Priced => (retRate.isNull <=> ~Computable(call.lower, call.middle, call.upper, call.type))
  /\ call.fn = "calculateButterflyChain" =>
        \A i \in 1..Len(retChain), j \in 1..Len(DefaultGaps) :
          LET k == retChain[i].strike
              g == DefaultGaps[j]
              computable == IF call.type = "CALL"
                            THEN Computable(k, k + g, k + 2 * g, "CALL")
                            ELSE Computable(k - 2 * g, k - g, k, "PUT")
          IN  ~computable => g \notin DOMAIN retChain[i].gaps
  /\ call.fn \in {"findBestStrategies", "findBestTrades"} =>
        \A i \in 1..Len(retStrategies) :
          LET e == retStrategies[i]
          IN  Computable(e.strikes[1], e.strikes[2], e.strikes[3], e.type)

\* all three records are there and a price is null after the fallback
C3_Witness ==
  /\ Priced /\ retRate.isNull
  /\ HasRecord(call.lower) /\ HasRecord(call.middle) /\ HasRecord(call.upper)
  /\ ~Present(SoldPrice(RecordAt(call.middle), call.type))

\* C4: calculateValuePercent(rate, firstLegPremium) is
\* (rate / firstLegPremium) * 100 when firstLegPremium > 0 and 0 otherwise, and
\* no strategy of findBestStrategies has firstLegPremium = 0.
C4_ValuePercent ==
  /\ call.fn = "calculateValuePercent" =>
        IF call.firstLegPremium > 0
        THEN /\ retNumber.den > 0
             /\ retNumber.num * call.firstLegPremium = 100 * call.rate * retNumber.den
        ELSE retNumber.den > 0 /\ retNumber.num = 0
  /\ call.fn = "findBestStrategies" =>
        \A i \in 1..Len(retStrategies) : retStrategies[i].firstLegPremium # 0

\* a butterfly whose first leg is quoted at 0
C4_Witness ==
  /\ call.fn = "calculateValuePercent"
  /\ call.firstLegPremium = 0 /\ call.rate > 0
  /\ retNumber = RatOfInt(0)

--------------------------------------------------------------------------
(* Vocabulary of the ranking properties.                                   *)

Ranked == call.fn = "findBestStrategies"

\* a spot price was given (line 296 takes 0 and undefined for none)
SpotGiven == spotArg # undefined /\ spotArg # 0

\* the strikes the chain has records for
ChainStrikes == {Chain[i].strike_price : i \in 1..Len(Chain)}

\* how many records of the chain carry strike k
Multiplicity(k) == Cardinality({i \in 1..Len(Chain) : Chain[i].strike_price = k})

\* the ATM strike of the chain for the spot price of the call
Atm == atmStrikeOf(strikesOf(Chain, FALSE), spotArg)

LowerOf(side, base, gap) == IF side = "CALL" THEN base ELSE base - 2 * gap
MiddleOf(side, base, gap) == IF side = "CALL" THEN base + gap ELSE base - gap
UpperOf(side, base, gap) == IF side = "CALL" THEN base + 2 * gap ELSE base

\* the base strike of a ranked entry: its lower strike for CALL, its upper for PUT
BaseOf(e) == IF e.type = "CALL" THEN e.strikes[1] ELSE e.strikes[3]

\* the conditions of inclusion, for a combination, a value ceiling and the
\* ATM strike
Qualifies(side, gap, base, ceiling, atm) ==
  LET r == calculateButterflyRate(LowerOf(side, base, gap), MiddleOf(side, base, gap),
                                  UpperOf(side, base, gap), Chain, side)
  IN  /\ base > 0
      /\ IF side = "CALL" THEN base >= atm ELSE base <= atm
      /\ HasRecord(LowerOf(side, base, gap))
      /\ HasRecord(MiddleOf(side, base, gap))
      /\ HasRecord(UpperOf(side, base, gap))
      /\ ~r.isNull
      /\ r.rate > 0
      /\ 2 * r.rate < r.firstLegPremium
      /\ 100 * r.rate > 0
      /\ 100 * r.rate <= ceiling * r.firstLegPremium

\* the entries of the returned list for a combination
EntriesFor(side, gap, base) ==
  {i \in 1..Len(retStrategies) :
     /\ retStrategies[i].type = side
     /\ retStrategies[i].gap = gap
     /\ BaseOf(retStrategies[i]) = base}

GapSet == {DefaultGaps[i] : i \in 1..Len(DefaultGaps)}

\* C5 as stated: a combination is in the output of findBestStrategies exactly
\* when it passes the eligibility filter, its legs exist, its rate is positive
\* and below half the first leg premium and 0 < valuePercent <= maxValuePercent,
\* and it is there exactly once.
C5_ExactlyOnce ==
  (Ranked /\ SpotGiven /\ Len(Chain) > 0) =>
    LET atm == Atm
    IN  \A side \in {"CALL", "PUT"}, gap \in GapSet, base \in ChainStrikes :
          Cardinality(EntriesFor(side, gap, base)) =
            IF Qualifies(side, gap, base, call.maxValuePercent, atm) THEN 1 ELSE 0

\* C5, what findBestStrategies does: a combination that passes has one entry
\* for each record of the chain that carries its base strike, a combination
\* that does not pass has none, and the list holds no other entry.
C5_OncePerRecord ==
  (Ranked /\ SpotGiven /\ Len(Chain) > 0) =>
    /\ LET atm == Atm
       IN  \A side \in {"CALL", "PUT"}, gap \in GapSet, base \in ChainStrikes :
             Cardinality(EntriesFor(side, gap, base)) =
               IF Qualifies(side, gap, base, call.maxValuePercent, atm)
               THEN Multiplicity(base) ELSE 0
    /\ \A i \in 1..Len(retStrategies) :
         /\ retStrategies[i].gap \in GapSet
         /\ BaseOf(retStrategies[i]) \in ChainStrikes
         /\ retStrategies[i].strikes =
              << LowerOf(retStrategies[i].type, BaseOf(retStrategies[i]), retStrategies[i].gap),
                 MiddleOf(retStrategies[i].type, BaseOf(retStrategies[i]), retStrategies[i].gap),
                 UpperOf(retStrategies[i].type, BaseOf(retStrategies[i]), retStrategies[i].gap) >>

\* a combination that passes, a combination rejected for its rate only, and a
\* base strike two records carry
C5_Witness ==
  /\ Ranked /\ SpotGiven /\ Len(Chain) > 0
  /\ \E side \in {"CALL", "PUT"}, gap \in GapSet, base \in ChainStrikes :
       /\ Multiplicity(base) = 2
       /\ Cardinality(EntriesFor(side, gap, base)) = 2
       /\ Qualifies(side, gap, base, call.maxValuePercent, Atm)
  /\ \E side \in {"CALL", "PUT"}, gap \in GapSet, base \in ChainStrikes :
       /\ ~Qualifies(side, gap, base, call.maxValuePercent, Atm)
       /\ Computable(LowerOf(side, base, gap), MiddleOf(side, base, gap),
                     UpperOf(side, base, gap), side)

\* C6: no CALL strategy of findBestStrategies has its lower strike below the
\* ATM strike and no PUT strategy has its upper strike above it.
C6_AtmOrOtmOnly ==
  (Ranked /\ SpotGiven) =>
    \A i \in 1..Len(retStrategies) :
      IF retStrategies[i].type = "CALL"
      THEN retStrategies[i].strikes[1] >= Atm
      ELSE retStrategies[i].strikes[3] <= Atm

\* an in-the-money CALL and an in-the-money PUT butterfly were priceable, with
\* a rate and value that pass, and CALL and PUT strategies were returned
C6_Witness ==
  /\ Ranked /\ SpotGiven
  /\ \E i, j \in 1..Len(retStrategies) :
       retStrategies[i].type = "CALL" /\ retStrategies[j].type = "PUT"
  /\ \E gap \in GapSet, base \in ChainStrikes :
       LET r == calculateButterflyRate(base, base + gap, base + 2 * gap, Chain, "CALL")
       IN  /\ base < Atm /\ ~r.isNull /\ r.rate > 0
           /\ 2 * r.rate < r.firstLegPremium
           /\ 100 * r.rate <= call.maxValuePercent * r.firstLegPremium
  /\ \E gap \in GapSet, base \in ChainStrikes :
       LET r == calculateButterflyRate(base - 2 * gap, base - gap, base, Chain, "PUT")
       IN  /\ base > Atm /\ ~r.isNull /\ r.rate > 0
           /\ 2 * r.rate < r.firstLegPremium
           /\ 100 * r.rate <= call.maxValuePercent * r.firstLegPremium

\* C7: the list of findBestStrategies is in ascending order of valuePercent,
\* adjacent entries of equal valuePercent in ascending order of distanceFromATM.
C7_Ordered ==
  Ranked =>
    \A i \in 1..(Len(retStrategies) - 1) :
      LET a == retStrategies[i]
          b == retStrategies[i + 1]
      IN  /\ a.valuePercent.num * b.valuePercent.den <= b.valuePercent.num * a.valuePercent.den
          /\ a.valuePercent.num * b.valuePercent.den = b.valuePercent.num * a.valuePercent.den
               => a.distanceFromATM <= b.distanceFromATM

\* the sort moved entries: the list has a tie broken by distance and a step up
\* in valuePercent, and is not in the order the entries were produced in
C7_Witness ==
  /\ Ranked
  /\ \E i \in 1..(Len(retStrategies) - 1) :
       /\ RatEq(retStrategies[i].valuePercent, retStrategies[i + 1].valuePercent)
       /\ retStrategies[i].distanceFromATM < retStrategies[i + 1].distanceFromATM
  /\ \E i \in 1..(Len(retStrategies) - 1) :
       RatLess(retStrategies[i].valuePercent, retStrategies[i + 1].valuePercent)
  /\ retStrategies # pushed(Chain, strikesOf(Chain, FALSE), Atm, call.maxValuePercent)

\* C8: findBestTrades returns the first up-to-8 entries, in ranking order, of
\* the entries of findBestStrategies(rawData, spotPrice, 15) that have
\* valuePercent <= 15, distanceFromATM <= 2 and gap <= 100; never more than 8
\* entries and never an entry that breaks one of the three conditions.
C8_FirstEightNarrowed ==
  call.fn = "findBestTrades" =>
    LET all == findBestStrategies(chainArg, spotArg, 15)
        ok(e) == /\ e.valuePercent.den > 0
                 /\ e.valuePercent.num <= 15 * e.valuePercent.den
                 /\ e.distanceFromATM <= 2
                 /\ e.gap <= 100
        passing == {i \in 1..Len(all) : ok(all[i])}
        \* the position in the ranked list of the k-th passing entry
        nth(k) == CHOOSE i \in passing : Cardinality({j \in passing : j <= i}) = k
    IN  /\ Len(retStrategies) <= 8
        /\ \A k \in 1..Len(retStrategies) : ok(retStrategies[k])
        /\ Len(retStrategies) = IF Cardinality(passing) < 8 THEN Cardinality(passing) ELSE 8
        /\ \A k \in 1..Len(retStrategies) : retStrategies[k] = all[nth(k)]

\* the ranked list has more than 8 entries that pass, and an entry that does
\* not pass is ranked before the eighth that does
C8_Witness ==
  /\ call.fn = "findBestTrades"
  /\ Len(retStrategies) = 8
  /\ LET all == findBestStrategies(chainArg, spotArg, 15)
     IN  /\ Cardinality({i \in 1..Len(all) :
                           all[i].distanceFromATM <= 2 /\ all[i].gap <= 100}) > 8
         /\ \E i, j \in 1..Len(all) :
              /\ i < j
              /\ all[i].distanceFromATM > 2 \/ all[i].gap > 100
              /\ all[j] = retStrategies[8]

\* C9: getDetailedRecommendation returns one of the 8 labels, the label of the
\* first rule that matches, in the order EXIT (valuePercent > 25), VALUE_BREACH
\* (> 20), ENTRY (<= 10, near ATM, good gap), PROFIT_BOOKING (<= 10, near ATM),
\* SCALE (<= 15, near ATM), HOLD (<= 15), CHAIN_WARNING (<= 20, not near ATM,
\* not good gap), HOLD (<= 20), and AVOID when no rule matches; a valuePercent
\* above 25 gives EXIT for every distance and gap.
C9_FirstRuleWins ==
  call.fn = "getDetailedRecommendation" =>
    LET v == call.valuePercent
        isNumber == v.den > 0
        above(k) == isNumber /\ v.num > k * v.den
        atMost(k) == isNumber /\ v.num <= k * v.den
        nearATM == call.distanceFromATM <= 2
        goodGap == call.gap <= 100
        rules == << <<above(25), "EXIT">>,
                    <<above(20), "VALUE_BREACH">>,
                    <<atMost(10) /\ nearATM /\ goodGap, "ENTRY">>,
                    <<atMost(10) /\ nearATM, "PROFIT_BOOKING">>,
                    <<atMost(15) /\ nearATM, "SCALE">>,
                    <<atMost(15), "HOLD">>,
                    <<atMost(20) /\ ~nearATM /\ ~goodGap, "CHAIN_WARNING">>,
                    <<atMost(20), "HOLD">> >>
        matching == {i \in 1..Len(rules) : rules[i][1]}
        first == CHOOSE i \in matching : \A j \in matching : i <= j
    IN  /\ retLabel \in {"EXIT", "VALUE_BREACH", "ENTRY", "PROFIT_BOOKING", "SCALE",
                         "HOLD", "CHAIN_WARNING", "AVOID"}
        /\ retLabel = IF matching = {} THEN "AVOID" ELSE rules[first][2]
        /\ above(25) => retLabel = "EXIT"

\* a value between 15 and 20 far from ATM on a wide gap: the CHAIN_WARNING rule
\* and the HOLD rule after it both match
C9_Witness ==
  /\ call.fn = "getDetailedRecommendation"
  /\ call.valuePercent = Rat(35, 2)
  /\ call.distanceFromATM = 3
  /\ call.gap = 150
  /\ retLabel = "CHAIN_WARNING"

\* C10: calculateButterflyChain, findBestStrategies and findBestTrades return
\* an empty collection when the chain is empty or absent, and also when the
\* spot price is undefined.
C10_EmptyOnMissingInput ==
  LET chainMissing == chainArg.kind # "array" \/ Len(chainArg.rows) = 0
      spotMissing == spotArg = undefined
  IN  (chainMissing \/ spotMissing) =>
        /\ call.fn = "calculateButterflyChain" => retChain = <<>>
        /\ call.fn \in {"findBestStrategies", "findBestTrades"} => retStrategies = <<>>

\* C10, the part the functions keep: an empty or absent chain gives an empty
\* collection from the three of them, and an undefined spot price gives an
\* empty list from findBestStrategies and findBestTrades.
C10_EmptyWhereGuarded ==
  LET chainMissing == chainArg.kind # "array" \/ Len(chainArg.rows) = 0
      spotMissing == spotArg = undefined
  IN  /\ chainMissing =>
           /\ call.fn = "calculateButterflyChain" => retChain = <<>>
           /\ call.fn \in {"findBestStrategies", "findBestTrades"} => retStrategies = <<>>
      /\ spotMissing =>
           (call.fn \in {"findBestStrategies", "findBestTrades"} => retStrategies = <<>>)

\* findBestStrategies was called without a spot price on a chain that has
\* priceable butterflies
C10_Witness ==
  /\ call.fn = "findBestStrategies"
  /\ spotArg = undefined
  /\ retStrategies = <<>>
  /\ pushed(Chain, strikesOf(Chain, FALSE), BaseStrike, call.maxValuePercent) # <<>>

--------------------------------------------------------------------------
\* C11: the strike calculateButterflyChain flags isATM, and the ATM strike of
\* findBestStrategies, is a positive strike of the chain at minimal distance
\* from the spot price, and among the strikes at that distance the one the
\* function meets first (the lowest when it goes through them ascending).
C11_NearestFirstMet ==
  /\ (call.fn = "calculateButterflyChain" /\ spotArg # undefined /\ retChain # <<>>) =>
       LET dist(i) == Abs(retChain[i].strike - spotArg)
           nearest == {i \in 1..Len(retChain) : \A j \in 1..Len(retChain) : dist(i) <= dist(j)}
           firstMet == CHOOSE i \in nearest : \A j \in nearest : i <= j
       IN  \A i \in 1..Len(retChain) :
             retChain[i].isATM <=> retChain[i].strike = retChain[firstMet].strike
  /\ (Ranked /\ SpotGiven /\ \E k \in ChainStrikes : k > 0) =>
       LET positive == {k \in ChainStrikes : k > 0}
           nearest == {k \in positive :
                         \A m \in positive : Abs(k - spotArg) <= Abs(m - spotArg)}
           lowest == CHOOSE k \in nearest : \A m \in nearest : k <= m
       IN  /\ Atm = lowest
           /\ \A i \in 1..Len(retStrategies) :
                IF retStrategies[i].type = "CALL"
                THEN retStrategies[i].strikes[1] >= lowest
                ELSE retStrategies[i].strikes[3] <= lowest

\* the spot price lies halfway between two strikes, and the table that goes
\* through the strikes ascending flags the lower of the two
C11_Witness ==
  /\ call.fn = "calculateButterflyChain" /\ call.type = "CALL"
  /\ spotArg # undefined
  /\ \E i, j \in 1..Len(retChain) :
       /\ retChain[i].strike < retChain[j].strike
       /\ spotArg - retChain[i].strike = retChain[j].strike - spotArg
       /\ retChain[i].isATM /\ ~retChain[j].isATM
       /\ \A m \in 1..Len(retChain) :
            Abs(retChain[m].strike - spotArg) >= spotArg - retChain[i].strike

\* C12: in every row of calculateButterflyChain the gaps map has an entry for a
\* configured gap exactly when the three legs (CALL: strike, strike + gap,
\* strike + 2 * gap; PUT: strike - 2 * gap, strike - gap, strike) are priceable
\* and the rate is strictly positive; the entry holds that rate and its value
\* percentage.
C12_GapEntries ==
  call.fn = "calculateButterflyChain" =>
    \A i \in 1..Len(retChain), n \in 1..Len(DefaultGaps) :
      LET gap == DefaultGaps[n]
          side == call.type
          base == retChain[i].strike
          lower == LowerOf(side, base, gap)
          middle == MiddleOf(side, base, gap)
          upper == UpperOf(side, base, gap)
          priceable == Computable(lower, middle, upper, side)
          rate == BoughtPrice(RecordAt(lower), side)
                  - 2 * SoldPrice(RecordAt(middle), side)
                  + BoughtPrice(RecordAt(upper), side)
          premium == IF side = "CALL" THEN BoughtPrice(RecordAt(lower), side)
                     ELSE BoughtPrice(RecordAt(upper), side)
          entry == retChain[i].gaps[gap]
      IN  /\ gap \in DOMAIN retChain[i].gaps <=> (priceable /\ rate > 0)
          /\ gap \in DOMAIN retChain[i].gaps =>
               /\ entry.rate = rate
               /\ entry.value.den > 0
               /\ IF premium > 0
                  THEN entry.value.num * premium = 100 * rate * entry.value.den
                  ELSE entry.value.num = 0

\* a row with an entry for one gap and none for another whose legs are
\* priceable at a rate that is not positive
C12_Witness ==
  /\ call.fn = "calculateButterflyChain"
  /\ \E i \in 1..Len(retChain), g, h \in GapSet :
       LET side == call.type
           base == retChain[i].strike
       IN  /\ g \in DOMAIN retChain[i].gaps
           /\ h \notin DOMAIN retChain[i].gaps
           /\ Computable(LowerOf(side, base, h), MiddleOf(side, base, h),
                         UpperOf(side, base, h), side)

--------------------------------------------------------------------------
(* Vocabulary of the properties of the normalizer.                         *)

Normalized == call.fn = "transformOptionDataForButterfly"

\* the rows of a list that is an array and is not passed through
RawInput == chainArg.kind = "array" /\ ~alreadyTransformed(chainArg.rows)

\* the rows of the input for strike k that state the side
RowsOf(k, side) ==
  {i \in 1..Len(chainArg.rows) :
     chainArg.rows[i].strike_price = k /\ chainArg.rows[i].option_type = side}

\* what a raw row supplies for a field: null or undefined when it has none
Supplied(row, field) ==
  CASE field = "bid" -> IF Present(row.bid_price) THEN row.bid_price ELSE row.bid
    [] field = "ask" -> IF Present(row.ask_price) THEN row.ask_price ELSE row.ask
    [] field = "ltp" -> row.ltp
    [] field = "oi" -> IF Present(row.open_interest) THEN row.open_interest ELSE row.oi

\* the field of a normalized record
Held(rec, side, field) ==
  CASE field = "bid" -> IF side = "CE" THEN rec.call_bid ELSE rec.put_bid
    [] field = "ask" -> IF side = "CE" THEN rec.call_ask ELSE rec.put_ask
    [] field = "ltp" -> IF side = "CE" THEN rec.call_ltp ELSE rec.put_ltp
    [] field = "oi" -> IF side = "CE" THEN rec.call_oi ELSE rec.put_oi

Fields == {"bid", "ask", "ltp", "oi"}

\* C13: when the rows of one strike and side arrive as several raw rows, the
\* record of the strike holds for bid, ask, last traded price and open interest
\* the value of the last row, in input order, that supplies one; a row without
\* the field erases nothing.
C13_LastSuppliedWins ==
  (Normalized /\ RawInput
     /\ \A i \in 1..Len(chainArg.rows) : chainArg.rows[i].symbol = NoSymbol) =>
    \A k \in {chainArg.rows[i].strike_price : i \in 1..Len(chainArg.rows)} \ {SENTINEL},
       side \in {"CE", "PE"}, field \in Fields :
      LET supplying == {i \in RowsOf(k, side) : Present(Supplied(chainArg.rows[i], field))}
          last == CHOOSE i \in supplying : \A j \in supplying : j <= i
          recs == {n \in 1..Len(retRecords) : retRecords[n].strike_price = k}
      IN  /\ Cardinality(recs) = 1
          /\ \A n \in recs :
               IF supplying = {}
               THEN ~Present(Held(retRecords[n], side, field))
               ELSE Held(retRecords[n], side, field) = Supplied(chainArg.rows[last], field)

\* a row with only the bid of a call and a later row with only its ask gave
\* one record with both
C13_Witness ==
  /\ Normalized /\ RawInput
  /\ \E i, j \in RowsOf(BaseStrike, "CE") :
       /\ i < j
       /\ Present(Supplied(chainArg.rows[i], "bid"))
       /\ ~Present(Supplied(chainArg.rows[i], "ask"))
       /\ ~Present(Supplied(chainArg.rows[j], "bid"))
       /\ Present(Supplied(chainArg.rows[j], "ask"))
       /\ \A m \in RowsOf(BaseStrike, "CE") : m <= j
       /\ \E n \in 1..Len(retRecords) :
            /\ retRecords[n].strike_price = BaseStrike
            /\ retRecords[n].call_bid = Supplied(chainArg.rows[i], "bid")
            /\ retRecords[n].call_ask = Supplied(chainArg.rows[j], "ask")

\* C14: for every input list, raw or already normalized,
\* transformOptionDataForButterfly returns records in ascending order of
\* strike_price, no two of them with the same strike_price.
C14_SortedUnique ==
  Normalized =>
    \A i, j \in 1..Len(retRecords) :
      i < j => retRecords[i].strike_price < retRecords[j].strike_price

\* C14, what transformOptionDataForButterfly does: the records of a raw list
\* are in ascending order of strike_price without a repeated strike, and an
\* already normalized list comes back as it is, less the rows of strike -1.
C14_SortedUniqueWhenRaw ==
  Normalized =>
    /\ RawInput =>
         \A i, j \in 1..Len(retRecords) :
           i < j => retRecords[i].strike_price < retRecords[j].strike_price
    /\ (chainArg.kind = "array" /\ ~RawInput) =>
         LET kept == {i \in 1..Len(chainArg.rows) : chainArg.rows[i].strike_price # SENTINEL}
             rank(i) == Cardinality({j \in kept : j <= i})
         IN  /\ Len(retRecords) = Cardinality(kept)
             /\ \A i \in kept : retRecords[rank(i)] = chainArg.rows[i]

\* a raw feed with the higher strike first and a strike on several rows
C14_Witness ==
  /\ Normalized /\ RawInput
  /\ Len(retRecords) >= 2
  /\ \E i, j \in 1..Len(chainArg.rows) :
       /\ i < j
       /\ chainArg.rows[i].strike_price > chainArg.rows[j].strike_price
       /\ chainArg.rows[j].strike_price # SENTINEL
  /\ \E i, j \in 1..Len(chainArg.rows) :
       i # j /\ chainArg.rows[i].strike_price = chainArg.rows[j].strike_price

\* C15: every record transformOptionDataForButterfly returns has
\* strike_price > 0, and no butterfly leg is priced from a record of a strike
\* that is not positive.
C15_PositiveStrikes ==
  /\ Normalized => \A i \in 1..Len(retRecords) : retRecords[i].strike_price > 0
  /\ call.fn \in {"findBestStrategies", "findBestTrades"} =>
       \A i \in 1..Len(retStrategies), n \in 1..3 : retStrategies[i].strikes[n] > 0
  /\ call.fn = "calculateButterflyChain" =>
       \A i \in 1..Len(retChain) :
         \A g \in DOMAIN retChain[i].gaps :
           /\ LowerOf(call.type, retChain[i].strike, g) > 0
           /\ UpperOf(call.type, retChain[i].strike, g) > 0

\* C15, what the functions do: no record of strike -1 is returned, and the
\* strike of every row of the table and the base strike of every ranked
\* strategy is positive.
C15_NoSentinelPositiveBase ==
  /\ Normalized => \A i \in 1..Len(retRecords) : retRecords[i].strike_price # SENTINEL
  /\ call.fn \in {"findBestStrategies", "findBestTrades"} =>
       \A i \in 1..Len(retStrategies) : BaseOf(retStrategies[i]) > 0
  /\ call.fn = "calculateButterflyChain" =>
       \A i \in 1..Len(retChain) : retChain[i].strike > 0

\* the call fields and the put fields of a record hold nothing
NoCallFields(rec) ==
  \A field \in Fields : ~Present(Held(rec, "CE", field))
NoPutFields(rec) ==
  \A field \in Fields : ~Present(Held(rec, "PE", field))

\* every raw row of strike k states the side
AllRowsOf(k, side) ==
  \A i \in 1..Len(chainArg.rows) :
    chainArg.rows[i].strike_price = k => chainArg.rows[i].option_type = side

\* C16: the option_type of a raw row decides where it goes, whatever its
\* symbol contains: a strike whose rows are all 'PE' gets no call field and a
\* strike whose rows are all 'CE' gets no put field.
C16_ExplicitSideDecides ==
  (Normalized /\ RawInput) =>
    \A n \in 1..Len(retRecords) :
      /\ AllRowsOf(retRecords[n].strike_price, "PE") => NoCallFields(retRecords[n])
      /\ AllRowsOf(retRecords[n].strike_price, "CE") => NoPutFields(retRecords[n])

\* C16, what the normalizer does for rows that state 'CE', and for rows that
\* state no side: a strike whose rows are all 'CE' gets no put field, and a
\* row without option_type goes by its symbol.
C16_ExplicitCallDecides ==
  (Normalized /\ RawInput) =>
    \A n \in 1..Len(retRecords) :
      LET k == retRecords[n].strike_price
          unstated(sub) == {i \in 1..Len(chainArg.rows) :
                              /\ chainArg.rows[i].strike_price = k
                              /\ chainArg.rows[i].option_type = ""
                              /\ Includes(chainArg.rows[i].symbol, sub)}
      IN  /\ AllRowsOf(k, "CE") => NoPutFields(retRecords[n])
          /\ (AllRowsOf(k, "") /\ unstated(<<"P", "E">>) = {}) => NoPutFields(retRecords[n])
          /\ (AllRowsOf(k, "") /\ unstated(CEsub) = {}) => NoCallFields(retRecords[n])

--------------------------------------------------------------------------
\* the normalized quote of a side of a record, without the nested fields
FlatQuote(rec, side) ==
  IF side = "CALL"
  THEN [bid |-> rec.call_bid, ask |-> rec.call_ask, ltp |-> rec.call_ltp]
  ELSE [bid |-> rec.put_bid, ask |-> rec.put_ask, ltp |-> rec.put_ltp]

\* C17: the premium of a row of calculateButterflyChain is (bid + ask) / 2
\* when the bid and the ask of the strike and side are both present, otherwise
\* the last traded price when that is present, otherwise 0.
C17_PremiumMidOrLast ==
  call.fn = "calculateButterflyChain" =>
    \A i \in 1..Len(retChain) :
      LET q == FlatQuote(RecordAt(retChain[i].strike), call.type)
          premium == retChain[i].premium
      IN  /\ premium.den > 0
          /\ IF Present(q.bid) /\ Present(q.ask)
             THEN 2 * premium.num = (q.bid + q.ask) * premium.den
             ELSE IF Present(q.ltp)
                  THEN premium.num = q.ltp * premium.den
                  ELSE premium.num = 0

\* C17, the cases in which the premium is as stated: the bid and the ask are
\* both present and not both 0, or neither is present.
C17_PremiumWhenBothOrNeither ==
  call.fn = "calculateButterflyChain" =>
    \A i \in 1..Len(retChain) :
      LET q == FlatQuote(RecordAt(retChain[i].strike), call.type)
          premium == retChain[i].premium
      IN  /\ premium.den > 0
          /\ (Present(q.bid) /\ Present(q.ask) /\ q.bid + q.ask # 0) =>
               2 * premium.num = (q.bid + q.ask) * premium.den
          /\ (~Present(q.bid) /\ ~Present(q.ask)) =>
               IF Present(q.ltp) THEN premium.num = q.ltp * premium.den
               ELSE premium.num = 0

\* C18: every strategy of findBestStrategies has
\* distanceFromATM = round(|lowerStrike - atmStrike| / 50), lowerStrike being
\* the lowest of its three strikes and atmStrike the ATM strike of the chain.
C18_DistanceInSteps ==
  (Ranked /\ SpotGiven) =>
    \A i \in 1..Len(retStrategies) :
      LET e == retStrategies[i]
          lowest == CHOOSE k \in {e.strikes[1], e.strikes[2], e.strikes[3]} :
                      \A n \in 1..3 : k <= e.strikes[n]
          d == Abs(lowest - Atm)
      IN  \* the nearest integer to d / 50, the upper one at a half
          /\ 100 * e.distanceFromATM <= 2 * d + 50
          /\ 2 * d + 50 < 100 * e.distanceFromATM + 100

\* a PUT strategy whose lowest strike is an odd number of 25s from the ATM
\* strike, so that the quotient ends in a half and is rounded up
C18_Witness ==
  /\ Ranked /\ SpotGiven
  /\ \E i \in 1..Len(retStrategies) :
       LET e == retStrategies[i]
       IN  /\ e.type = "PUT"
           /\ e.strikes[1] = e.strikes[3] - 2 * e.gap
           /\ Abs(e.strikes[1] - Atm) % 50 = 25
           /\ 50 * e.distanceFromATM = Abs(e.strikes[1] - Atm) + 25

\* the label of the simple rule for a value percentage that is a number
SimpleLabel(v) ==
  IF v.num <= 10 * v.den THEN "ENTRY"
  ELSE IF v.num <= 20 * v.den THEN "HOLD"
  ELSE "AVOID"

\* C19: getRecommendation gives ENTRY for valuePercent <= 10, HOLD for
\* 10 < valuePercent <= 20 and AVOID for valuePercent > 20, and every strategy
\* of findBestStrategies carries the label of its valuePercent.
C19_SimpleRule ==
  /\ (call.fn = "getRecommendation" /\ call.valuePercent.den > 0) =>
       retLabel = SimpleLabel(call.valuePercent)
  /\ Ranked =>
       \A i \in 1..Len(retStrategies) :
         /\ retStrategies[i].valuePercent.den > 0
         /\ retStrategies[i].recommendation = SimpleLabel(retStrategies[i].valuePercent)

\* a ranked strategy with a value between 15 and 20, which is HOLD
C19_Witness ==
  /\ Ranked
  /\ \E i \in 1..Len(retStrategies) :
       /\ retStrategies[i].valuePercent.num > 15 * retStrategies[i].valuePercent.den
       /\ retStrategies[i].valuePercent.num <= 20 * retStrategies[i].valuePercent.den
       /\ retStrategies[i].recommendation = "HOLD"

--------------------------------------------------------------------------
\* the record the table holds for strike k: the last one the chain lists
TableRecordAt(k) ==
  Chain[CHOOSE i \in 1..Len(Chain) :
          Chain[i].strike_price = k /\ \A j \in (i + 1)..Len(Chain) : Chain[j].strike_price # k]

\* a quotient in lowest terms, the denominator positive
RECURSIVE GCD(_, _)
GCD(a, b) == IF b = 0 THEN a ELSE GCD(b, a % b)
Lowest(q) ==
  LET g == GCD(Abs(q.num), Abs(q.den))
      sign == IF q.den < 0 THEN -1 ELSE 1
  IN  IF g = 0 THEN q ELSE Rat(sign * (q.num \div g), sign * (q.den \div g))

\* the configured legs of a side
LegsOf(side) == IF side = "CALL" THEN CE_LEGS ELSE PE_LEGS

\* C20: in the multi-leg table, for every strike and every configured leg
\* (gap, ratio r), the entry has rate = baseAsk - r * middleBid, baseAsk being
\* the ask of the row's strike (its last traded price only if the ask is
\* missing) and middleBid the bid of the strike one gap away (strike + gap for
\* CALL, strike - gap for PUT; its last traded price only if the bid is
\* missing), and value = (rate / baseAsk) * 100 when baseAsk > 0, else 0; the
\* entry is absent exactly when baseAsk or middleBid is not available.
C20_TwoLegRate ==
  call.fn = "MultiButterflyChainTable" =>
    \A i \in 1..Len(retTable), n \in 1..Len(LegsOf(call.type)) :
      LET side == call.type
          leg == LegsOf(side)[n]
          strike == retTable[i].strike
          away == IF side = "CALL" THEN strike + leg.gap ELSE strike - leg.gap
          baseAsk == BoughtPrice(TableRecordAt(strike), side)
          available == /\ Present(baseAsk)
                       /\ HasRecord(away)
                       /\ Present(SoldPrice(TableRecordAt(away), side))
          middleBid == SoldPrice(TableRecordAt(away), side)
          entry == retTable[i].legs[n]
      IN  /\ n \in DOMAIN retTable[i].legs <=> available
          /\ n \in DOMAIN retTable[i].legs =>
               /\ entry.rate.den > 0 /\ entry.value.den > 0
               \* r is leg.ratio.num / leg.ratio.den
               /\ Lowest(entry.rate) =
                    Lowest(Rat(baseAsk * leg.ratio.den - leg.ratio.num * middleBid,
                               leg.ratio.den))
               /\ Lowest(entry.value) =
                    IF baseAsk > 0
                    THEN Lowest(Rat(100 * (baseAsk * leg.ratio.den
                                           - leg.ratio.num * middleBid),
                                    leg.ratio.den * baseAsk))
                    ELSE RatOfInt(0)

\* a row with an entry of ratio 1.33 at a negative rate, an entry priced from a
\* last traded price, and a leg without entry
C20_Witness ==
  /\ call.fn = "MultiButterflyChainTable"
  /\ \E i \in 1..Len(retTable) :
       /\ \E n \in DOMAIN retTable[i].legs :
            /\ retTable[i].legs[n].ratio = Rat(133, 100)
            /\ retTable[i].legs[n].rate.num < 0
       /\ \E n \in 1..Len(LegsOf(call.type)) : n \notin DOMAIN retTable[i].legs
  /\ \E i \in 1..Len(retTable) :
       /\ ~Present(QuoteOf(TableRecordAt(retTable[i].strike), call.type).ask)
       /\ retTable[i].legs # << >>

--------------------------------------------------------------------------
\* the strike a returned table flags isATM is the ATM strike of the ranker
FlagsAtm(rows) ==
  \A i \in 1..Len(rows) : rows[i].isATM <=> rows[i].strike = Atm

\* two positive strikes of the chain are nearest to the spot price
AtmTie ==
  \E k, m \in ChainStrikes :
    /\ 0 < k /\ k < m
    /\ Abs(k - spotArg) = Abs(m - spotArg)
    /\ \A n \in ChainStrikes : n > 0 => Abs(n - spotArg) >= Abs(k - spotArg)

\* C22: for one snapshot and spot price, calculateButterflyChain on either
\* side and the multi-leg table flag as ATM the strike findBestStrategies
\* takes for ATM, also when two strikes are equally far from the spot price.
C22_SameAtm ==
  /\ (call.fn = "calculateButterflyChain" /\ SpotGiven /\ retChain # <<>>) =>
       FlagsAtm(retChain)
  /\ (call.fn = "MultiButterflyChainTable" /\ retTable # <<>>) =>
       FlagsAtm(retTable)

\* what holds: the table of either side and the CALL chain agree with the
\* ranker, and the PUT chain does when no two strikes tie
C22_SameAtmUnlessPutTie ==
  /\ (call.fn = "calculateButterflyChain" /\ SpotGiven /\ retChain # <<>>
        /\ (call.type = "CALL" \/ ~AtmTie)) =>
       FlagsAtm(retChain)
  /\ (call.fn = "MultiButterflyChainTable" /\ retTable # <<>>) =>
       FlagsAtm(retTable)
  /\ (call.fn = "calculateButterflyChain" /\ SpotGiven /\ retChain # <<>>
        /\ call.type = "PUT" /\ AtmTie) =>
       \A i \in 1..Len(retChain) :
         retChain[i].isATM <=> retChain[i].strike = 2 * spotArg - Atm

\* the PUT chain on a tie, and the PUT table on a tie
C22_Witness ==
  /\ AtmTie
  /\ \/ call.fn = "calculateButterflyChain" /\ call.type = "PUT" /\ retChain # <<>>
     \/ call.fn = "MultiButterflyChainTable" /\ call.type = "PUT" /\ retTable # <<>>

--------------------------------------------------------------------------
NormalizedAgain == call.fn = "transformOptionDataForButterfly.again"

\* two lists have the same strikes and the same six quotes, record by record
SameQuotes(a, b) ==
  /\ Len(a) = Len(b)
  /\ \A i \in 1..Len(a) :
       /\ a[i].strike_price = b[i].strike_price
       /\ a[i].call_bid = b[i].call_bid /\ a[i].call_ask = b[i].call_ask
       /\ a[i].call_ltp = b[i].call_ltp
       /\ a[i].put_bid = b[i].put_bid /\ a[i].put_ask = b[i].put_ask
       /\ a[i].put_ltp = b[i].put_ltp

\* a record that holds a quote of some kind
Quoted(rec) ==
  \/ Present(rec.call_bid) \/ Present(rec.call_ask) \/ Present(rec.call_ltp)
  \/ Present(rec.put_bid) \/ Present(rec.put_ask) \/ Present(rec.put_ltp)

\* C23: normalizing the normalized form of a raw list changes neither the
\* strikes nor the call and put bid, ask and last traded price, also when no
\* row of the raw list carries a last traded price.
C23_Idempotent ==
  (NormalizedAgain /\ RawInput) => SameQuotes(retRecords, Chain)

\* what holds: the second pass keeps the records when one of them holds a last
\* traded price, and otherwise keeps the strikes and drops every quote
C23_IdempotentWithLastPrice ==
  (NormalizedAgain /\ RawInput) =>
    IF alreadyTransformed(Chain)
    THEN retRecords = Chain
    ELSE /\ Len(retRecords) = Len(Chain)
         /\ \A i \in 1..Len(Chain) :
              /\ retRecords[i].strike_price = Chain[i].strike_price
              /\ ~Quoted(retRecords[i])

\* a raw list with a last traded price, normalized twice
C23_Witness ==
  /\ NormalizedAgain /\ RawInput
  /\ alreadyTransformed(Chain)
  /\ \E i \in 1..Len(retRecords) : Present(retRecords[i].call_bid)

\* a raw list without a last traded price whose quotes the second pass lost
C23_LostQuotes ==
  /\ NormalizedAgain /\ RawInput
  /\ \E i \in 1..Len(Chain) : Quoted(Chain[i]) /\ ~Quoted(retRecords[i])

--------------------------------------------------------------------------
\* the near-ATM test of findBestTrades (line 391) and getDetailedRecommendation
\* (line 161) on the distance a strategy stores
NearAtmByField(e) == e.distanceFromATM <= 2

\* the points between the lowest leg of a strategy and the ATM strike
PointsFromAtm(e) == Abs(e.strikes[1] - Atm)

\* C26: every strategy findBestStrategies returns has isNearATM true exactly
\* when its distanceFromATM is at most 2.
C26_FlagAgreesWithDistance ==
  Ranked =>
    \A i \in 1..Len(retStrategies) :
      retStrategies[i].isNearATM <=> NearAtmByField(retStrategies[i])

\* what holds: the flag is set up to 100 points from ATM, the stored distance
\* is at most 2 up to 124 points; the two differ between 101 and 124 points
C26_FlagInPoints ==
  Ranked =>
    \A i \in 1..Len(retStrategies) :
      LET e == retStrategies[i]
      IN  /\ e.isNearATM <=> PointsFromAtm(e) <= 100
          /\ NearAtmByField(e) <=> PointsFromAtm(e) < 125
          /\ e.isNearATM => NearAtmByField(e)

\* a strategy exactly 100 points from ATM, and one exactly 125 points from it
C26_Witness ==
  /\ Ranked
  /\ \E i \in 1..Len(retStrategies) :
       PointsFromAtm(retStrategies[i]) \in {100, 125}

--------------------------------------------------------------------------
BestTrades == call.fn = "findBestTrades"

\* C27: every PUT entry findBestTrades returns has gap 50 and an upper strike
\* at or below the ATM strike by less than 25 points; the distance being
\* measured from the lowest leg, no PUT entry has gap 100, while a CALL entry
\* may have gap 50 or 100.
C27_PutTradesNarrow ==
  BestTrades =>
    \A i \in 1..Len(retStrategies) :
      LET e == retStrategies[i]
      IN  IF e.type = "PUT"
          THEN /\ e.gap = 50
               /\ e.strikes[3] <= Atm
               /\ Atm - e.strikes[3] < 25
               /\ e.strikes[1] = e.strikes[3] - 100
          ELSE e.gap \in {50, 100}

\* the shortlist holds a PUT entry and a CALL entry of gap 100, on a chain
\* that has the legs of a PUT butterfly of gap 100 below the ATM strike
C27_Witness ==
  /\ BestTrades
  /\ \E i, j \in 1..Len(retStrategies) :
       /\ retStrategies[i].type = "PUT"
       /\ retStrategies[j].type = "CALL" /\ retStrategies[j].gap = 100
  /\ HasRecord(Atm - 100) /\ HasRecord(Atm - 200)

--------------------------------------------------------------------------
Alerted == call.fn = "getAlertType"

\* the recommendation for the arguments of the pending call
RecommendationOfCall ==
  getDetailedRecommendation(call.valuePercent, call.distanceFromATM, call.gap)

\* C28: for every (valuePercent, distanceFromATM, gap) the alert is good_entry
\* exactly when the detailed recommendation is ENTRY, value_breach exactly
\* when it is EXIT or VALUE_BREACH, profit_booking exactly when it is
\* PROFIT_BOOKING, scaling_opportunity exactly when it is SCALE, and
\* chain_warning exactly when it is CHAIN_WARNING.
C28_AlertMatchesRecommendation ==
  Alerted =>
    /\ retLabel = "good_entry" <=> RecommendationOfCall = "ENTRY"
    /\ retLabel = "value_breach" <=> RecommendationOfCall \in {"EXIT", "VALUE_BREACH"}
    /\ retLabel = "profit_booking" <=> RecommendationOfCall = "PROFIT_BOOKING"
    /\ retLabel = "scaling_opportunity" <=> RecommendationOfCall = "SCALE"
    /\ retLabel = "chain_warning" <=> RecommendationOfCall = "CHAIN_WARNING"

\* what holds: the two agree on entry and on the breach of value; the other
\* alerts cover more than the recommendation of the same name
C28_AlertCoversRecommendation ==
  Alerted =>
    /\ retLabel = "good_entry" <=> RecommendationOfCall = "ENTRY"
    /\ retLabel = "value_breach" <=> RecommendationOfCall \in {"EXIT", "VALUE_BREACH"}
    /\ retLabel = "profit_booking" <=> RecommendationOfCall \in {"PROFIT_BOOKING", "SCALE"}
    /\ retLabel = "scaling_opportunity" <=>
         (RecommendationOfCall = "HOLD" /\ RatLeqInt(call.valuePercent, 15))
    /\ RecommendationOfCall = "CHAIN_WARNING" => retLabel = "chain_warning"

\* a value between 10 and 15 near ATM: profit_booking beside SCALE
C28_Witness ==
  /\ Alerted
  /\ retLabel = "profit_booking" /\ RecommendationOfCall = "SCALE"

--------------------------------------------------------------------------
(* Vocabulary of the properties of useOptionChain.                         *)

\* a completion of a request took the step
Completes == hook'.pending # hook.pending /\ hook'.pending \subseteq hook.pending

\* C21: the chain and the spot price the hook exposes come from one and the
\* same response, after any sequence of fetch completions.
C21_OneResponse ==
  (hook.mounted /\ hook.spotPrice > 0) => hook.spotPrice = hook.data.id

\* what holds: the spot price is that of the response the chain came from
\* when that response carried one (json.records, or json.data with an
\* underlyingValue), and that of an earlier response otherwise
C21_OneResponseWhenSpotCarried ==
  hook.mounted =>
    /\ hook.data.withSpot => hook.spotPrice = hook.data.id
    /\ ~hook.data.withSpot => hook.spotPrice # hook.data.id \/ hook.data.id = 0

\* a chain from a later response beside the spot price of an earlier one
C21_Witness ==
  /\ hook.mounted
  /\ hook.spotPrice > 0 /\ hook.data.id > hook.spotPrice

\* C25: the data exposed is that of the most recently issued request that
\* has completed, and once the request for the selected expiry has completed
\* it is not a chain fetched for another expiry.
C25_NewestWins ==
  (hook.mounted /\ hook.newest > 0) =>
    /\ hook.data.id = hook.newest
    /\ hook.selectedExpiry \in hook.answered =>
         hook.data.expiry = hook.selectedExpiry

\* what holds: the data is that of some completed request, whichever response
\* arrived last
C25_SomeCompleted ==
  hook.mounted =>
    IF hook.newest = 0 THEN hook.data.id = 0
    ELSE /\ hook.data.id \in 1..hook.newest
         /\ hook.data.expiry \in hook.answered
         /\ \A r \in hook.pending : r.id # hook.data.id

\* an older response arrived after a newer one
C25_Witness ==
  /\ hook.mounted
  /\ hook.data.id > 0 /\ hook.data.id < hook.newest

\* the response for an expiry no longer selected replaced the chain of the
\* selected one
C25_WrongExpiry ==
  /\ hook.mounted
  /\ hook.selectedExpiry \in hook.answered
  /\ hook.data.expiry # hook.selectedExpiry

--------------------------------------------------------------------------
\* a call during which every chain request was denied and every session
\* initialisation succeeded
DeniedThroughout == server.running /\ server.pc # "idle" /\ server.onlyDenied

\* C24: a call of fetchOptionChain during which the upstream answers every
\* chain request with 401/403 while initSession keeps succeeding makes at
\* most MAX_RETRIES retries, then returns the cached snapshot marked stale
\* if there is one and fails otherwise.
C24_RetriesBounded ==
  DeniedThroughout =>
    /\ server.attempts <= MAX_RETRIES
    \* a call answered from the fresh cache made no chain request
    /\ (server.pc = "returned" /\ server.result # "cached") =>
         server.result = IF server.cachedData THEN "stale" ELSE "error"

\* what holds: the counter stays within 0..MAX_RETRIES, and a session that was
\* initialised leaves it 0, so a request made after initSession is retried
\* whatever the number of retries before it
C24_CounterBounded ==
  server.running =>
    /\ server.retryCount \in 0..MAX_RETRIES
    /\ (DeniedThroughout /\ server.pc = "request") => server.retryCount = 0
    /\ (DeniedThroughout /\ server.attempts > 0) => server.pc # "returned"

\* the fourth retry of a call
C24_Witness ==
  DeniedThroughout /\ server.attempts > MAX_RETRIES

--------------------------------------------------------------------------
(* The Puppeteer server.                                                   *)

\* the callers inside initBrowser between isInitializing = true and its reset
Launching ==
  {p \in Procs : browser.procs[p].pc \in {"launch", "newPage", "setup", "settle"}}

\* a fetchOptionChain reached page.url() with page set to null by closeBrowser
EvaluatesNulledPage ==
  /\ browser.nulledBy = "closeBrowser"
  /\ \E p \in Procs : browser.procs[p].pc = "typeError"

\* C30: at most one browser launch is in progress and at most one
\* browser/page pair is live at any time, under any interleaving of the
\* fetches, the refreshes and the startup, and no fetch evaluates against a
\* page that closeBrowser has set to null.
C30_OneLaunchOnePair ==
  browser # BrowserOff =>
    /\ Cardinality(Launching) <= 1
    /\ Cardinality(browser.live) <= 1
    /\ ~EvaluatesNulledPage

\* C30, what holds: one caller at most is between the set and the reset of
\* isInitializing, the flag is set while it is there, and a caller that
\* found the flag set leaves its wait only with the flag clear.
C30_OneLaunch ==
  browser # BrowserOff =>
    /\ Cardinality(Launching) <= 1
    /\ Launching # {} => browser.isInitializing

\* a caller waits while another one launches
C30_Witness ==
  /\ browser # BrowserOff
  /\ \E p, q \in Procs :
       /\ browser.procs[p].pc = "launch"
       /\ browser.procs[q].pc = "initWait"

\* two browsers are open at once
C30_TwoBrowsers ==
  /\ browser # BrowserOff
  /\ Cardinality(browser.live) = 2

\* a fetch dereferences the page that closeBrowser set to null
C30_NullPage ==
  /\ browser # BrowserOff
  /\ EvaluatesNulledPage

====
